---- MODULE Spec2Model ----
(***************************************************************************)
(* EspVault memory manager (components/vault_memory): the flight-recorder  *)
(* history buffer, the sequence counter with its periodic NVS sync, and    *)
(* the network ring buffer between the capture task and the network task.  *)
(*                                                                         *)
(* The history buffer is modelled byte by byte, because the store          *)
(* (vault_memory_store_history) and the readers (vault_memory_find_by_seq, *)
(* vault_memory_get_range) compute their byte offsets differently.         *)
(***************************************************************************)
EXTENDS Integers, Sequences, FiniteSets, TLC

(***************************************************************************)
(* Program constants.                                                      *)
(***************************************************************************)
\* sizeof(vault_packet_t): the packed struct, VAULT_PROTO_PACKET_SIZE.
PacketSize == 13
\* VAULT_PROTO_HEAD, the start-of-frame marker 0xAA.
VAULT_PROTO_HEAD == 170
\* VAULT_CMD_EVENT.
VAULT_CMD_EVENT == 2
\* VAULT_FLAG_INPUT_STATE, (1 << 1).
VAULT_FLAG_INPUT_STATE == 2
\* VAULT_SEQ_SYNC_INTERVAL.
VAULT_SEQ_SYNC_INTERVAL == 10

(***************************************************************************)
(* Bounds of the model.                                                    *)
(***************************************************************************)
\* VAULT_HISTORY_BUFFER_SIZE scaled down from 2 * 1024 * 1024 bytes.  Like
\* the shipped size it is a power of two and no multiple of 13.
HistoryBufferSize == 64
\* Stores per run of the history model.
MaxStores == 6
\* Sequence numbers offered to the store are 0 .. MaxStoreSeq - 1.
MaxStoreSeq == 6

\* Events capture_task handles in the runs with every publishing call.
MaxOfflineEvents == 2
\* Width in bits of the history cursor and of the products computed from
\* it, scaled down from the 32 bits of uint32_t.
WordBits == 8

\* Calls of vault_memory_get_next_seq per boot session.
MaxCalls == 23
\* The same in the runs with unclean restarts.
MaxCrashCalls == 12
\* Unclean restarts per run.
MaxReboots == 1
\* Calls of vault_memory_get_next_seq per boot session where init is studied.
MaxInitCalls == 2
\* Heartbeats (calls from the health context) per boot session: one every
\* 30 s, against one capture event every second.
MaxHeartbeats == 1

\* Items the network ring buffer holds (VAULT_NETWORK_QUEUE_SIZE bytes as
\* shipped, scaled down).
NetworkQueueItems == 2
\* Sends, and receives that time out, per run of the queue model.
MaxQueueCalls == 6
\* Sequence numbers of the packets offered to the queue: 0 .. MaxSendSeq - 1.
MaxSendSeq == 2

\* The longest timeout of a receive, in ticks.
MaxTimeoutTicks == 2

\* Iterations of capture_task where its progress is studied, and the
\* packets network_task receives at most in such a run.
MaxLiveEvents == 12

MaxLiveReceives == 1

\* Messages on the command topic per run.
MaxCommands == 2

\* The changes made to one serialized packet before it is parsed.
MaxDamage == 1

\* Provisioning messages per run.
MaxProvMessages == 1

\* Identifiers fetched while provisioning messages arrive: enough for the
\* first sync of the counter to come due.
MaxProvCalls == 11

\* max_replay of vault_mqtt_handle_replay, scaled down from 100 so that, as
\* in the shipped build, the history holds more records than one replay
\* republishes.
max_replay == 2

\* VAULT_HISTORY_MAX_ENTRIES == VAULT_HISTORY_BUFFER_SIZE / sizeof(vault_packet_t)
VAULT_HISTORY_MAX_ENTRIES == HistoryBufferSize \div PacketSize

\* A byte of heap memory that nothing has written yet.
Uninit == -1

\* nvs_get_u32 finds no value under the key (ESP_ERR_NVS_NOT_FOUND).
NoValue == -1

\* The contexts that call vault_memory_get_next_seq: capture_task on core 0
\* and the heartbeat publisher (health_task) on core 1.
Contexts == {"capture", "health"}

VARIABLES
    history_buffer,     \* byte offset -> byte, the PSRAM region
    history_write_pos,  \* mem->history_write_pos
    history_count,      \* mem->history_count
    heap_overrun,       \* byte offsets >= HistoryBufferSize that a store wrote
    stored,             \* history of the packets passed to store, oldest first
    last_store,         \* the most recent store: its offset and write position
    ret,                \* what the most recent call returned
    seq_counter,        \* mem->seq_counter
    seq_last_synced,    \* mem->seq_last_synced
    nvs_value,          \* the committed value of key "seq_counter", or NoValue
    nvs_staged,         \* per context: the value set on its handle, not committed
    pc,                 \* per context: its position in vault_memory_get_next_seq
    seq_local,          \* per context: the local variable seq
    boot_seq,           \* the counter value vault_memory_init established
    calls,              \* per context: calls returned in this boot session
    last_ret,           \* per context: the value its last call returned
    issued,             \* identifiers returned in this boot session
    prev_issued,        \* identifiers returned in earlier boot sessions
    sync_at,            \* per committed sync: identifiers fetched so far
    reboots,            \* unclean restarts so far
    network_queue,      \* the items in the ring buffer, oldest first, as bytes
    rb_held,            \* the consumer holds the oldest item (received, not returned)
    accepted,           \* packets for which vault_memory_queue_network returned true
    received,           \* packets vault_memory_dequeue_network returned, in order
    timeouts,           \* calls of either function that returned false
    rx_pc,              \* the consumer: "idle", or "blocked" in xRingbufferReceive
    rx_ticks,           \* the consumer: ticks left of the receive it is blocked in
    rx_packet,          \* the consumer: the record its output pointer denotes
    mqtt_connected,     \* mqtt->connected
    net_published,      \* packets network_task handed to the publisher
    heartbeats,         \* heartbeat packets handed to the publisher
    cap_pc,             \* capture_task: its position in the loop body
    cap_packet,         \* capture_task: the local variable packet
    net_pc,             \* network_task: its position in the loop body
    st_pc,              \* a store in progress: its position in the function
    st_packet,          \* a store in progress: the packet being stored
    st_copied,          \* a store in progress: bytes the memcpy has written
    rd_pc,              \* a replay in progress: its position
    rd_req,             \* a replay in progress: seq_start and seq_end
    rd_count,           \* a replay in progress: search_count of get_range
    rd_i,               \* a replay in progress: loop index i of get_range
    rd_out,             \* a replay in progress: packets copied out so far
    codec_record,       \* the record a caller hands to the codec
    codec_bytes,        \* the bytes on the wire: a payload to be parsed
    codec_parsed,       \* what vault_protocol_parse made of codec_bytes last
    codec_log,          \* where codec_record and codec_bytes come from
    cmd_messages,       \* messages that arrived on the command topic
    cmd_replays,        \* the calls of vault_mqtt_handle_replay by the handler
    cmd_callbacks,      \* the packets the handler passed to the command callback
    heap,               \* per kind of block: the blocks of it that are allocated
    mem_pc,             \* the manager: "up", "gone" after deinit, "null" after a failed init
    mem_log,            \* how the last deinit and the last init went
    prov_pc,            \* provisioning_message_handler: its position
    prov_msg,           \* the provisioning message being handled
    prov_count,         \* provisioning messages received so far
    prov_log,           \* what the handler has done for this message, in order
    prov_stored,        \* the configuration stored under key "config" in NVS
    in_setup_mode,      \* prov->in_setup_mode
    suspended,          \* the tasks that are suspended
    nvs_lock            \* the task inside a call of the NVS library, or "free"

hvars == <<history_buffer, history_write_pos, history_count, heap_overrun,
           stored, last_store, ret>>

svars == <<seq_counter, seq_last_synced, nvs_value, nvs_staged, pc, seq_local,
           boot_seq, calls, last_ret, issued, prev_issued, sync_at, reboots>>

qvars == <<network_queue, rb_held, accepted, received, timeouts,
           rx_pc, rx_ticks, rx_packet>>

\* The MQTT client and the tasks of app_main.
pvars == <<mqtt_connected, net_published, heartbeats, cap_pc, cap_packet,
           net_pc>>

\* A store and a replay running step by step.
rvars == <<st_pc, st_packet, st_copied, rd_pc, rd_req, rd_count, rd_i, rd_out>>

\* The life of the memory manager: its blocks on the heap, init and deinit.
mvars == <<heap, mem_pc, mem_log>>

\* Remote provisioning: the handler, setup mode, the stored configuration.
gvars == <<prov_pc, prov_msg, prov_count, prov_log, prov_stored,
           in_setup_mode, suspended, nvs_lock>>

\* The codec at work on its own, the command topic of the MQTT client, and
\* what surrounds the running manager.
cvars == <<codec_record, codec_bytes, codec_parsed, codec_log, cmd_messages,
           cmd_replays, cmd_callbacks, mvars, gvars>>

vars == <<hvars, svars, qvars, pvars, rvars, cvars>>

(***************************************************************************)
(* vault_packet_t and its layout in memory.                                *)
(***************************************************************************)
Min(a, b) == IF a < b THEN a ELSE b

\* Byte k (0..3) of a little-endian 32-bit value.
LeByte(v, k) == (v \div (256 ^ k)) % 256

\* A layout with the flags byte in front of the pin byte.
PacketBytesFlagsFirst(p) ==
    << p.head, p.cmd,
       LeByte(p.seq, 0), LeByte(p.seq, 1), LeByte(p.seq, 2), LeByte(p.seq, 3),
       p.flags, p.pin,
       LeByte(p.val, 0), LeByte(p.val, 1), LeByte(p.val, 2), LeByte(p.val, 3),
       p.crc >>

\* The 13 bytes of a packet as the packed struct lays them out.
PacketBytes(p) ==
    << p.head, p.cmd,
       LeByte(p.seq, 0), LeByte(p.seq, 1), LeByte(p.seq, 2), LeByte(p.seq, 3),
       p.pin, p.flags,
       LeByte(p.val, 0), LeByte(p.val, 1), LeByte(p.val, 2), LeByte(p.val, 3),
       p.crc >>

\* A little-endian 32-bit value read from four bytes of a buffer.  A value
\* of 2^31 or more is carried as v - 2^32: LeByte gives back its four bytes,
\* and the comparisons of the code with sequence numbers below 2^31 (equal,
\* inside [seq_start, seq_end]) come out as they do for v.
LeWord(buf, a) ==
    buf[a] + 256 * buf[a + 1] + 65536 * buf[a + 2]
        + 16777216 * (IF buf[a + 3] >= 128 THEN buf[a + 3] - 256 ELSE buf[a + 3])

\* The packet the struct pointer (vault_packet_t *)(buf + offset) denotes.
PacketAt(buf, offset) ==
    [ head  |-> buf[offset],
      cmd   |-> buf[offset + 1],
      seq   |-> LeWord(buf, offset + 2),
      pin   |-> buf[offset + 6],
      flags |-> buf[offset + 7],
      val   |-> LeWord(buf, offset + 8),
      crc   |-> buf[offset + 12] ]

\* VAULT_CMD_HEARTBEAT and VAULT_CMD_REPLAY.
VAULT_CMD_HEARTBEAT == 3

VAULT_CMD_REPLAY == 4
\* VAULT_FLAG_IS_REPLAY, (1 << 0).
VAULT_FLAG_IS_REPLAY == 1

(***************************************************************************)
(* vault_protocol: the packet codec.  vault_protocol.c is not among the    *)
(* sources; its functions follow the declarations of vault_protocol.h and  *)
(* the codec section of the specification.  The loop of the checksum is    *)
(* the one CONTRIBUTING.md shows; the contents of its table are not given  *)
(* anywhere, and the table below is the one of the polynomial x^8 + x^2 +  *)
(* x + 1.  Nothing stated about the pipeline depends on which table it is. *)
(***************************************************************************)
RECURSIVE BitXor(_, _)
\* a ^ b on non-negative integers.
BitXor(a, b) ==
    IF a = 0 THEN b
    ELSE IF b = 0 THEN a
    ELSE 2 * BitXor(a \div 2, b \div 2) + ((a + b) % 2)

RECURSIVE BitOr(_, _)
\* a | b on non-negative integers.
BitOr(a, b) ==
    IF a = 0 THEN b
    ELSE IF b = 0 THEN a
    ELSE 2 * BitOr(a \div 2, b \div 2) + (IF a % 2 = 1 \/ b % 2 = 1 THEN 1 ELSE 0)

RECURSIVE Crc8Shift(_, _)
\* n rounds of the shift register on one byte.
Crc8Shift(c, n) ==
    IF n = 0 THEN c
    ELSE Crc8Shift(IF c >= 128 THEN BitXor((2 * c) % 256, 7) ELSE 2 * c, n - 1)

crc8_table == [b \in 0 .. 255 |-> Crc8Shift(b, 8)]

\* crc ^ data[i] for two bytes, tabulated.
XorTable == [a \in 0 .. 255 |-> [b \in 0 .. 255 |-> BitXor(a, b)]]

RECURSIVE Crc8LoopSkipsLast(_, _, _)
\* A loop that stops one byte early: for (i = 0; i < len - 1; i++).
Crc8LoopSkipsLast(data, i, crc) ==
    IF i >= Len(data) THEN crc
    ELSE Crc8LoopSkipsLast(data, i + 1, crc8_table[XorTable[crc][data[i]]])

RECURSIVE Crc8Loop(_, _, _)
\* for (i = 0; i < len; i++) crc = crc8_table[crc ^ data[i]], from byte i on.
Crc8Loop(data, i, crc) ==
    IF i > Len(data) THEN crc
    ELSE Crc8Loop(data, i + 1, crc8_table[XorTable[crc][data[i]]])

\* vault_protocol_calc_crc8(data, len): crc starts at 0x00.
vault_protocol_calc_crc8(data) == Crc8Loop(data, 1, 0)

\* The checksum of a packet: over its first 12 bytes.
PacketCrc(p) == vault_protocol_calc_crc8(SubSeq(PacketBytes(p), 1, PacketSize - 1))

\* vault_protocol_init_packet: head, cmd and seq set, the rest zero.
vault_protocol_init_packet(cmd, seq) ==
    [ head  |-> VAULT_PROTO_HEAD,
      cmd   |-> cmd,
      seq   |-> seq,
      pin   |-> 0,
      flags |-> 0,
      val   |-> 0,
      crc   |-> 0 ]

\* vault_protocol_finalize_packet: writes the checksum of bytes 0-11 into
\* byte 12 and touches nothing else.
vault_protocol_finalize_packet(p) == [p EXCEPT !.crc = PacketCrc(p)]

\* vault_protocol_validate_packet: the head first, then the checksum.
vault_protocol_validate_packet(p) ==
    /\ p.head = VAULT_PROTO_HEAD
    /\ p.crc = PacketCrc(p)

\* vault_protocol_serialize: the 13 bytes of the packed struct.
vault_protocol_serialize(p) == PacketBytes(p)

\* vault_protocol_parse(data, len, packet): the length first, then the
\* head, then the checksum of bytes 0-11 against byte 12; on success the
\* 13 bytes are the packet.
vault_protocol_parse(data) ==
    IF Len(data) # PacketSize
    THEN [ok |-> FALSE, error |-> "MalformedInput"]
    ELSE IF data[1] # VAULT_PROTO_HEAD
    THEN [ok |-> FALSE, error |-> "BadSentinel"]
    ELSE IF data[PacketSize] # vault_protocol_calc_crc8(SubSeq(data, 1, PacketSize - 1))
    THEN [ok |-> FALSE, error |-> "ChecksumMismatch"]
    ELSE [ok |-> TRUE, error |-> "None",
          packet |-> PacketAt([a \in 0 .. PacketSize - 1 |-> data[a + 1]], 0)]

\* The replay request a broker sends: seq carries the start of the range,
\* val its end.
ReplayCommand(seq_start, seq_end) ==
    vault_protocol_finalize_packet(
        [vault_protocol_init_packet(VAULT_CMD_REPLAY, seq_start) EXCEPT
            !.val = seq_end])

\* The event packet capture_task builds for a sequence number: init_packet,
\* pin 5, the input-state flag, a value, finalize.  The value differs per
\* packet (capture_task always writes 1000), so that the bytes of two
\* packets can be told apart.
EventPacket(seq) ==
    vault_protocol_finalize_packet(
        [vault_protocol_init_packet(VAULT_CMD_EVENT, seq) EXCEPT
            !.pin = 5,
            !.flags = VAULT_FLAG_INPUT_STATE,
            !.val = 1000 + seq])

\* The heartbeat packet vault_mqtt_publish_heartbeat builds.
HeartbeatPacket(seq) ==
    vault_protocol_finalize_packet(vault_protocol_init_packet(VAULT_CMD_HEARTBEAT, seq))

(***************************************************************************)
(* vault_memory_store_history                                              *)
(***************************************************************************)
\* uint32_t arithmetic: results are reduced modulo 2^width.
WordModulus == 2 ^ WordBits

\* The byte offset the store computes from the write position: the product
\* in the width of the cursor, then the remainder by the region's size.
StoreOffset(write_pos) ==
    ((write_pos * PacketSize) % WordModulus) % HistoryBufferSize

\* memcpy(buf + offset, packet, 13): the bytes that land inside the region.
\* Bytes past the region's end are written to whatever the heap holds behind
\* the allocation; the store records their offsets in heap_overrun and no
\* reader of the history ever reads them back.
MemcpyInto(buf, offset, bytes) ==
    [a \in DOMAIN buf |->
        IF a >= offset /\ a < offset + PacketSize
        THEN bytes[a - offset + 1]
        ELSE buf[a]]

\* vault_memory_store_history(mem, packet): the memcpy at the offset of the
\* write position, the write position and the count advanced, return true.
\* Nothing in it waits or refuses.
StoreHistoryWrite(packet) ==
    /\ LET offset == StoreOffset(history_write_pos)
       IN /\ history_buffer' = MemcpyInto(history_buffer, offset, PacketBytes(packet))
          /\ heap_overrun' = heap_overrun \cup
                {a \in offset .. offset + PacketSize - 1 : a >= HistoryBufferSize}
          /\ last_store' = [offset |-> offset, write_pos |-> history_write_pos,
                             count |-> history_count]
    /\ history_write_pos' = (history_write_pos + 1) % WordModulus
    /\ history_count' = IF history_count < VAULT_HISTORY_MAX_ENTRIES
                        THEN history_count + 1 ELSE history_count
    /\ stored' = Append(stored, packet)
    /\ ret' = [op |-> "store", ok |-> TRUE]
    /\ UNCHANGED <<svars, qvars>>

\* The store in the models that bound the number of stores.
StoreHistory(packet) ==
    /\ Len(stored) < MaxStores
    /\ StoreHistoryWrite(packet)

(***************************************************************************)
(* vault_memory_find_by_seq, vault_memory_get_range                        *)
(***************************************************************************)
SearchCount == Min(history_count, VAULT_HISTORY_MAX_ENTRIES)

\* Slot index the readers visit in iteration i of their loop.
ScanPos(i) ==
    ((history_write_pos - SearchCount + i) % WordModulus)
        % VAULT_HISTORY_MAX_ENTRIES

\* The packet the readers see in iteration i.
ScanPacket(i) == PacketAt(history_buffer, ScanPos(i) * PacketSize)

\* The first iteration whose slot carries the sequence, or -1.
FindIndex(seq) ==
    LET hits == {i \in 0 .. SearchCount - 1 : ScanPacket(i).seq = seq}
    IN IF hits = {} THEN -1
       ELSE CHOOSE i \in hits : \A j \in hits : i <= j

FindBySeqResult(seq) ==
    LET i == FindIndex(seq)
    IN IF i < 0 THEN [op |-> "find", seq |-> seq, found |-> FALSE]
       ELSE [op |-> "find", seq |-> seq, found |-> TRUE, packet |-> ScanPacket(i)]

FindBySeq(seq) ==
    /\ ret' = FindBySeqResult(seq)
    /\ UNCHANGED <<history_buffer, history_write_pos, history_count,
                   heap_overrun, stored, last_store>>
    /\ UNCHANGED <<svars, qvars>>

RECURSIVE RangeLoop(_, _, _, _, _)
\* The loop of vault_memory_get_range from iteration i on, `out` found so far.
RangeLoop(i, out, seq_start, seq_end, max_count) ==
    IF i < SearchCount /\ Len(out) < max_count
    THEN LET p == ScanPacket(i)
         IN RangeLoop(i + 1,
                      IF p.seq >= seq_start /\ p.seq <= seq_end
                      THEN Append(out, p) ELSE out,
                      seq_start, seq_end, max_count)
    ELSE out

GetRangeResult(seq_start, seq_end, max_count) ==
    IF max_count = 0 THEN <<>>
    ELSE RangeLoop(0, <<>>, seq_start, seq_end, max_count)

GetRange(seq_start, seq_end, max_count) ==
    /\ ret' = [op |-> "range", seq_start |-> seq_start, seq_end |-> seq_end,
               max_count |-> max_count,
               packets |-> GetRangeResult(seq_start, seq_end, max_count)]
    /\ UNCHANGED <<history_buffer, history_write_pos, history_count,
                   heap_overrun, stored, last_store>>
    /\ UNCHANGED <<svars, qvars>>


(***************************************************************************)
(* vault_memory_get_next_seq and vault_memory_sync_seq_to_nvs, step by     *)
(* step for each calling context.  Only the fetch-and-add is atomic; the   *)
(* reads of seq_last_synced and seq_counter around it are separate steps.  *)
(***************************************************************************)
\* (seq - mem->seq_last_synced) >= VAULT_SEQ_SYNC_INTERVAL in uint32_t: a
\* seq below seq_last_synced wraps to a difference of nearly 2^32.
SyncDue(seq, last_synced) ==
    IF seq >= last_synced
    THEN seq - last_synced >= VAULT_SEQ_SYNC_INTERVAL
    ELSE TRUE

\* A fetch that returns the incremented value (__atomic_add_fetch).
GetNextSeqAddFetch(c) ==
    /\ pc[c] = "idle"
    /\ seq_counter - boot_seq < MaxCalls
    /\ c = "health" => calls[c] < MaxHeartbeats
    /\ seq_local' = [seq_local EXCEPT ![c] = seq_counter + 1]
    /\ seq_counter' = seq_counter + 1
    /\ pc' = [pc EXCEPT ![c] = "check"]
    /\ UNCHANGED <<seq_last_synced, nvs_value, nvs_staged, boot_seq, calls,
                   last_ret, issued, prev_issued, sync_at, reboots>>
    /\ UNCHANGED <<hvars, qvars>>

\* A fetch without the atomic: seq = mem->seq_counter, then
\* mem->seq_counter = seq + 1 as a second step.
GetNextSeqPlainIncrement(c) ==
    /\ \/ /\ pc[c] = "idle"
          /\ seq_counter - boot_seq < MaxCalls
          /\ c = "health" => calls[c] < MaxHeartbeats
          /\ seq_local' = [seq_local EXCEPT ![c] = seq_counter]
          /\ pc' = [pc EXCEPT ![c] = "increment"]
          /\ UNCHANGED seq_counter
       \/ /\ pc[c] = "increment"
          /\ seq_counter' = seq_local[c] + 1
          /\ pc' = [pc EXCEPT ![c] = "check"]
          /\ UNCHANGED seq_local
    /\ UNCHANGED <<seq_last_synced, nvs_value, nvs_staged, boot_seq, calls,
                   last_ret, issued, prev_issued, sync_at, reboots>>
    /\ UNCHANGED <<hvars, qvars>>

\* uint32_t seq = __atomic_fetch_add(&mem->seq_counter, 1, __ATOMIC_SEQ_CST)
GetNextSeqFetch(c) ==
    /\ pc[c] = "idle"
    /\ seq_counter - boot_seq < MaxCalls
    /\ c = "health" => calls[c] < MaxHeartbeats
    /\ seq_local' = [seq_local EXCEPT ![c] = seq_counter]
    /\ seq_counter' = seq_counter + 1
    /\ pc' = [pc EXCEPT ![c] = "check"]
    /\ UNCHANGED <<seq_last_synced, nvs_value, nvs_staged, boot_seq, calls,
                   last_ret, issued, prev_issued, sync_at, reboots>>
    /\ UNCHANGED <<hvars, qvars>>

\* return seq: the bookkeeping of a returning call.
ReturnSeq(c) ==
    /\ calls' = [calls EXCEPT ![c] = @ + 1]
    /\ last_ret' = [last_ret EXCEPT ![c] = seq_local[c]]
    /\ issued' = issued \cup {seq_local[c]}
    /\ pc' = [pc EXCEPT ![c] = "idle"]
    /\ seq_local' = [seq_local EXCEPT ![c] = 0]

\* The interval test finds no sync due: the call returns.
GetNextSeqNoSync(c) ==
    /\ pc[c] = "check"
    /\ ~SyncDue(seq_local[c], seq_last_synced)
    /\ ReturnSeq(c)
    /\ UNCHANGED <<seq_counter, seq_last_synced, nvs_value, nvs_staged,
                   boot_seq, prev_issued, sync_at, reboots>>
    /\ UNCHANGED <<hvars, qvars>>

\* The interval test finds a sync due: vault_memory_sync_seq_to_nvs opens NVS.
GetNextSeqSyncDue(c) ==
    /\ pc[c] = "check"
    /\ SyncDue(seq_local[c], seq_last_synced)
    /\ pc' = [pc EXCEPT ![c] = "nvs_set"]
    /\ UNCHANGED <<seq_counter, seq_last_synced, nvs_value, nvs_staged, seq_local,
                   boot_seq, calls, last_ret, issued, prev_issued, sync_at, reboots>>
    /\ UNCHANGED <<hvars, qvars>>

\* nvs_set_u32(nvs_handle, NVS_SEQ_KEY, mem->seq_counter)
SyncSet(c) ==
    /\ pc[c] = "nvs_set"
    /\ nvs_staged' = [nvs_staged EXCEPT ![c] = seq_counter]
    /\ pc' = [pc EXCEPT ![c] = "nvs_commit"]
    /\ UNCHANGED <<seq_counter, seq_last_synced, nvs_value, seq_local,
                   boot_seq, calls, last_ret, issued, prev_issued, sync_at, reboots>>
    /\ UNCHANGED <<hvars, qvars>>

\* nvs_commit(nvs_handle); nvs_close(nvs_handle)
SyncCommit(c) ==
    /\ pc[c] = "nvs_commit"
    /\ nvs_value' = nvs_staged[c]
    /\ nvs_staged' = [nvs_staged EXCEPT ![c] = NoValue]
    /\ sync_at' = Append(sync_at, seq_counter - boot_seq)
    /\ pc' = [pc EXCEPT ![c] = "synced"]
    /\ UNCHANGED <<seq_counter, seq_last_synced, seq_local,
                   boot_seq, calls, last_ret, issued, prev_issued, reboots>>
    /\ UNCHANGED <<hvars, qvars>>

\* mem->seq_last_synced = mem->seq_counter, then both functions return.
SyncMark(c) ==
    /\ pc[c] = "synced"
    /\ seq_last_synced' = seq_counter
    /\ ReturnSeq(c)
    /\ UNCHANGED <<seq_counter, nvs_value, nvs_staged,
                   boot_seq, prev_issued, sync_at, reboots>>
    /\ UNCHANGED <<hvars, qvars>>

\* The frame of a step inside vault_memory_sync_seq_to_nvs that fails.
SyncFailFrame ==
    /\ UNCHANGED <<seq_counter, seq_last_synced, seq_local, boot_seq, calls,
                   last_ret, issued, prev_issued, sync_at, reboots>>
    /\ UNCHANGED <<hvars, qvars>>

\* The interval test finds a sync due and nvs_open fails:
\* vault_memory_sync_seq_to_nvs returns false at once.
SyncOpenFail(c) ==
    /\ pc[c] = "check"
    /\ SyncDue(seq_local[c], seq_last_synced)
    /\ pc' = [pc EXCEPT ![c] = "sync_failed"]
    /\ UNCHANGED <<nvs_value, nvs_staged>>
    /\ SyncFailFrame

\* nvs_set_u32 fails: the handle is closed and false returned.
SyncSetFail(c) ==
    /\ pc[c] = "nvs_set"
    /\ pc' = [pc EXCEPT ![c] = "sync_failed"]
    /\ UNCHANGED <<nvs_value, nvs_staged>>
    /\ SyncFailFrame

\* A failing commit that marks the counter as synced all the same.
SyncCommitFailMarks(c) ==
    /\ pc[c] = "nvs_commit"
    /\ nvs_value' \in {nvs_value, nvs_staged[c]}
    /\ nvs_staged' = [nvs_staged EXCEPT ![c] = NoValue]
    /\ pc' = [pc EXCEPT ![c] = "sync_failed"]
    /\ seq_last_synced' = seq_counter
    /\ UNCHANGED <<seq_counter, seq_local, boot_seq, calls,
                   last_ret, issued, prev_issued, sync_at, reboots>>
    /\ UNCHANGED <<hvars, qvars>>

\* nvs_commit fails, the handle is closed: err is not ESP_OK and false is
\* returned.  The value set before may or may not have reached the flash.
SyncCommitFail(c) ==
    /\ pc[c] = "nvs_commit"
    /\ nvs_value' \in {nvs_value, nvs_staged[c]}
    /\ nvs_staged' = [nvs_staged EXCEPT ![c] = NoValue]
    /\ pc' = [pc EXCEPT ![c] = "sync_failed"]
    /\ SyncFailFrame

\* Back in vault_memory_get_next_seq after a sync that failed: its result
\* is not looked at, return seq.
SyncFailedReturn(c) ==
    /\ pc[c] = "sync_failed"
    /\ ReturnSeq(c)
    /\ UNCHANGED <<seq_counter, seq_last_synced, nvs_value, nvs_staged,
                   boot_seq, prev_issued, sync_at, reboots>>
    /\ UNCHANGED <<hvars, qvars>>

\* The steps of a call whose sync fails.
GetNextSeqFailStep(c) ==
    \/ SyncOpenFail(c)
    \/ SyncSetFail(c)
    \/ SyncCommitFail(c)
    \/ SyncFailedReturn(c)

\* vault_memory_load_seq_from_nvs as vault_memory_init uses it: the stored
\* value, or 0 when the key holds none.
LoadedSeq(value) == IF value = NoValue THEN 0 ELSE value

\* The device restarts without vault_memory_deinit (power loss, panic) and
\* vault_memory_init runs again.  A value set but not yet committed may or
\* may not have reached the flash.
Reboot ==
    /\ reboots < MaxReboots
    /\ \E v \in {nvs_value} \cup {nvs_staged[c] : c \in {d \in Contexts : pc[d] = "nvs_commit"}} :
          /\ nvs_value' = v
          /\ seq_counter' = LoadedSeq(v)
          /\ seq_last_synced' = LoadedSeq(v)
          /\ boot_seq' = LoadedSeq(v)
    /\ nvs_staged' = [c \in Contexts |-> NoValue]
    /\ pc' = [c \in Contexts |-> "idle"]
    /\ seq_local' = [c \in Contexts |-> 0]
    /\ calls' = [c \in Contexts |-> 0]
    /\ last_ret' = [c \in Contexts |-> NoValue]
    /\ prev_issued' = prev_issued \cup issued
    /\ issued' = {}
    /\ sync_at' = <<>>
    /\ reboots' = reboots + 1
    /\ UNCHANGED <<hvars, qvars>>

\* The device restarts and vault_memory_init runs up to the call of
\* vault_memory_load_seq_from_nvs: the structure is zeroed.  No task has
\* been created yet.
InitRestart ==
    /\ reboots < MaxReboots
    /\ \A c \in Contexts : pc[c] \notin {"init_load", "init_loaded", "init_load_failed"}
    /\ nvs_value' \in {nvs_value} \cup
          {nvs_staged[c] : c \in {d \in Contexts : pc[d] = "nvs_commit"}}
    /\ seq_counter' = 0
    /\ seq_last_synced' = 0
    /\ boot_seq' = 0
    /\ nvs_staged' = [c \in Contexts |-> NoValue]
    /\ pc' = [c \in Contexts |-> "init_load"]
    /\ seq_local' = [c \in Contexts |-> 0]
    /\ calls' = [c \in Contexts |-> 0]
    /\ last_ret' = [c \in Contexts |-> NoValue]
    /\ prev_issued' = prev_issued \cup issued
    /\ issued' = {}
    /\ sync_at' = <<>>
    /\ reboots' = reboots + 1
    /\ UNCHANGED <<hvars, qvars>>

\* The frame of a step of vault_memory_init after the restart.
InitFrame ==
    /\ UNCHANGED <<nvs_value, nvs_staged, seq_local, calls, last_ret, issued,
                   prev_issued, sync_at, reboots>>
    /\ UNCHANGED <<hvars, qvars>>

\* vault_memory_load_seq_from_nvs: nvs_open and nvs_get_u32 succeed,
\* mem->seq_counter = seq, return true.
InitLoadOk ==
    /\ \A c \in Contexts : pc[c] = "init_load"
    /\ nvs_value # NoValue
    /\ seq_counter' = nvs_value
    /\ pc' = [c \in Contexts |-> "init_loaded"]
    /\ UNCHANGED <<seq_last_synced, boot_seq>>
    /\ InitFrame

\* vault_memory_load_seq_from_nvs: nvs_open fails, or nvs_get_u32 fails or
\* finds no value under the key: return false, the counter not written.
InitLoadFail ==
    /\ \A c \in Contexts : pc[c] = "init_load"
    /\ pc' = [c \in Contexts |-> "init_load_failed"]
    /\ UNCHANGED <<seq_counter, seq_last_synced, boot_seq>>
    /\ InitFrame

\* An init that leaves seq_last_synced as the memset left it.
InitFinishNoMark ==
    /\ \E c \in Contexts : pc[c] \in {"init_loaded", "init_load_failed"}
    /\ seq_counter' = IF \E c \in Contexts : pc[c] = "init_load_failed"
                      THEN 0 ELSE seq_counter
    /\ UNCHANGED seq_last_synced
    /\ boot_seq' = seq_counter'
    /\ pc' = [c \in Contexts |-> "idle"]
    /\ InitFrame

\* vault_memory_init after the load: if it failed mem->seq_counter = 0;
\* mem->seq_last_synced = mem->seq_counter; initialized = true.
InitFinish ==
    /\ \E c \in Contexts : pc[c] \in {"init_loaded", "init_load_failed"}
    /\ seq_counter' = IF \E c \in Contexts : pc[c] = "init_load_failed"
                      THEN 0 ELSE seq_counter
    /\ seq_last_synced' = seq_counter'
    /\ boot_seq' = seq_counter'
    /\ pc' = [c \in Contexts |-> "idle"]
    /\ InitFrame

\* A fresh device, or one whose earlier sessions left a counter in NVS.
SeqInit ==
    /\ nvs_value \in {NoValue, 7}
    /\ seq_counter = LoadedSeq(nvs_value)
    /\ seq_last_synced = seq_counter
    /\ boot_seq = seq_counter
    /\ nvs_staged = [c \in Contexts |-> NoValue]
    /\ pc = [c \in Contexts |-> "idle"]
    /\ seq_local = [c \in Contexts |-> 0]
    /\ calls = [c \in Contexts |-> 0]
    /\ last_ret = [c \in Contexts |-> NoValue]
    /\ issued = {}
    /\ prev_issued = {}
    /\ sync_at = <<>>
    /\ reboots = 0

GetNextSeqStep(c) ==
    \/ GetNextSeqFetch(c)
    \/ GetNextSeqNoSync(c)
    \/ GetNextSeqSyncDue(c)
    \/ SyncSet(c)
    \/ SyncCommit(c)
    \/ SyncMark(c)

\* One boot session of the allocator.
SeqNext == (\E c \in Contexts : GetNextSeqStep(c)) /\ UNCHANGED <<pvars, rvars, cvars>>

\* The allocator across unclean restarts.
CrashNext ==
    \/ SeqNext /\ seq_counter' - boot_seq <= MaxCrashCalls
    \/ Reboot /\ UNCHANGED <<pvars, rvars, cvars>>

\* One boot session of the allocator with a durable storage that may fail
\* in any call.
NvsNext ==
    \/ /\ \E c \in Contexts : GetNextSeqStep(c)
       /\ seq_counter' - boot_seq <= MaxCrashCalls
       /\ UNCHANGED <<pvars, rvars, cvars>>
    \/ /\ \E c \in Contexts : GetNextSeqFailStep(c)
       /\ UNCHANGED <<pvars, rvars, cvars>>

\* vault_memory_init after restarts at any point of short sessions.
InitNext ==
    \/ /\ \E c \in Contexts : GetNextSeqStep(c)
       /\ seq_counter' - boot_seq <= MaxInitCalls
       /\ UNCHANGED <<pvars, rvars, cvars>>
    \/ InitRestart /\ UNCHANGED <<pvars, rvars, cvars>>
    \/ InitLoadOk /\ UNCHANGED <<pvars, rvars, cvars>>
    \/ InitLoadFail /\ UNCHANGED <<pvars, rvars, cvars>>
    \/ InitFinish /\ UNCHANGED <<pvars, rvars, cvars>>

(***************************************************************************)
(* vault_memory_queue_network (producer, core 0) and                       *)
(* vault_memory_dequeue_network (consumer, core 1) on the no-split ring    *)
(* buffer.  xRingbufferSend, xRingbufferReceive and vRingbufferReturnItem  *)
(* each run under the ring buffer's own lock; the consumer's memcpy out of *)
(* the received item runs outside it.                                      *)
(***************************************************************************)
\* The packet memcpy(packet, item, sizeof(vault_packet_t)) leaves in *packet.
PacketFromItem(item) == PacketAt([a \in 0 .. PacketSize - 1 |-> item[a + 1]], 0)

QueueAttempts == Len(accepted) + timeouts

\* xRingbufferSend finds room within the timeout: the 13 bytes are copied in.
QueueSendOk(packet) ==
    /\ Len(network_queue) < NetworkQueueItems
    /\ network_queue' = Append(network_queue, PacketBytes(packet))
    /\ accepted' = Append(accepted, packet)
    /\ UNCHANGED <<rb_held, received, timeouts, rx_pc, rx_ticks, rx_packet>>
    /\ UNCHANGED <<hvars, svars>>

\* The buffer stays full until the timeout expires (at once, for a timeout
\* of 0): xRingbufferSend returns pdFALSE and the function returns false.
QueueSendTimeout(packet) ==
    /\ Len(network_queue) >= NetworkQueueItems
    /\ timeouts' = timeouts + 1
    /\ UNCHANGED <<network_queue, rb_held, accepted, received,
                   rx_pc, rx_ticks, rx_packet>>
    /\ UNCHANGED <<hvars, svars>>

\* A successful send in the models that bound the number of calls.
QueueNetworkOk(packet) ==
    /\ QueueAttempts < MaxQueueCalls
    /\ QueueSendOk(packet)

\* A send that finds the buffer full at the end of its timeout and reports
\* success all the same.
QueueNetworkTimeoutAsSuccess(packet) ==
    /\ QueueAttempts < MaxQueueCalls
    /\ Len(network_queue) >= NetworkQueueItems
    /\ accepted' = Append(accepted, packet)
    /\ UNCHANGED <<network_queue, rb_held, received, timeouts,
                   rx_pc, rx_ticks, rx_packet>>
    /\ UNCHANGED <<hvars, svars>>

\* A send that times out in the models that bound the number of calls.
QueueNetworkTimeout(packet) ==
    /\ QueueAttempts < MaxQueueCalls
    /\ QueueSendTimeout(packet)

\* xRingbufferReceive with ticks > 0 finds the buffer empty: the calling
\* task blocks.  `ticks` is what pdMS_TO_TICKS made of timeout_ms; the tick
\* rate is part of the build configuration.
DequeueBlock(ticks) ==
    /\ rx_pc = "idle"
    /\ ~rb_held
    /\ network_queue = <<>>
    /\ ticks > 0
    /\ QueueAttempts < MaxQueueCalls
    /\ rx_pc' = "blocked"
    /\ rx_ticks' = ticks
    /\ UNCHANGED <<network_queue, rb_held, accepted, received, timeouts, rx_packet>>
    /\ UNCHANGED <<hvars, svars>>

\* A tick passes while the consumer is blocked on the empty buffer.
DequeueTick ==
    /\ rx_pc = "blocked"
    /\ ~rb_held
    /\ network_queue = <<>>
    /\ rx_ticks > 0
    /\ rx_ticks' = rx_ticks - 1
    /\ UNCHANGED <<network_queue, rb_held, accepted, received, timeouts,
                   rx_pc, rx_packet>>
    /\ UNCHANGED <<hvars, svars>>

\* xRingbufferReceive returns the oldest item, at once or as the blocked
\* call is woken by a send; the item stays in the buffer until it is
\* returned.
DequeueReceive ==
    /\ ~rb_held
    /\ network_queue # <<>>
    /\ rb_held' = TRUE
    /\ UNCHANGED <<network_queue, accepted, received, timeouts,
                   rx_pc, rx_ticks, rx_packet>>
    /\ UNCHANGED <<hvars, svars>>

\* A consumer that copies the newest item of the buffer instead of the one
\* it received.
DequeueCopyNewest ==
    /\ rb_held
    /\ received' = Append(received, PacketFromItem(network_queue[Len(network_queue)]))
    /\ rx_packet' = PacketFromItem(network_queue[Len(network_queue)])
    /\ network_queue' = Tail(network_queue)
    /\ rb_held' = FALSE
    /\ rx_pc' = "idle"
    /\ rx_ticks' = 0
    /\ UNCHANGED <<accepted, timeouts>>
    /\ UNCHANGED <<hvars, svars>>

\* item_size == sizeof(vault_packet_t): memcpy to *packet,
\* vRingbufferReturnItem, return true.
DequeueCopyReturn ==
    /\ rb_held
    /\ received' = Append(received, PacketFromItem(Head(network_queue)))
    /\ rx_packet' = PacketFromItem(Head(network_queue))
    /\ network_queue' = Tail(network_queue)
    /\ rb_held' = FALSE
    /\ rx_pc' = "idle"
    /\ rx_ticks' = 0
    /\ UNCHANGED <<accepted, timeouts>>
    /\ UNCHANGED <<hvars, svars>>

\* A receive that writes zeroes to *packet before it returns false.
DequeueTimeoutClearsOutput ==
    /\ ~rb_held
    /\ network_queue = <<>>
    /\ \/ rx_pc = "idle" /\ QueueAttempts < MaxQueueCalls
       \/ rx_pc = "blocked" /\ rx_ticks = 0
    /\ timeouts' = timeouts + 1
    /\ rx_pc' = "idle"
    /\ rx_packet' = [head |-> 0, cmd |-> 0, seq |-> 0, pin |-> 0, flags |-> 0,
                     val |-> 0, crc |-> 0]
    /\ UNCHANGED <<network_queue, rb_held, accepted, received, rx_ticks>>
    /\ UNCHANGED <<hvars, svars>>

\* The buffer is empty at a call with ticks = 0, or has stayed empty until
\* the ticks of a blocked call ran out: xRingbufferReceive returns NULL and
\* the function returns false.
DequeueTimeout ==
    /\ ~rb_held
    /\ network_queue = <<>>
    /\ \/ rx_pc = "idle" /\ QueueAttempts < MaxQueueCalls
       \/ rx_pc = "blocked" /\ rx_ticks = 0
    /\ timeouts' = timeouts + 1
    /\ rx_pc' = "idle"
    /\ UNCHANGED <<network_queue, rb_held, accepted, received, rx_ticks, rx_packet>>
    /\ UNCHANGED <<hvars, svars>>

\* network_task has not run yet; its local packet holds nothing written.
QueueInit ==
    /\ network_queue = <<>>
    /\ rb_held = FALSE
    /\ accepted = <<>>
    /\ received = <<>>
    /\ timeouts = 0
    /\ rx_pc = "idle"
    /\ rx_ticks = 0
    /\ rx_packet = vault_protocol_init_packet(0, 0)

\* One producer and one consumer in parallel.
QueueNext ==
    \/ /\ \E s \in 0 .. MaxSendSeq - 1 : QueueNetworkOk(EventPacket(s))
       /\ UNCHANGED <<pvars, rvars, cvars>>
    \/ /\ \E s \in 0 .. MaxSendSeq - 1 : QueueNetworkTimeout(EventPacket(s))
       /\ UNCHANGED <<pvars, rvars, cvars>>
    \/ /\ \E ticks \in 1 .. MaxTimeoutTicks : DequeueBlock(ticks)
       /\ UNCHANGED <<pvars, rvars, cvars>>
    \/ DequeueTick /\ UNCHANGED <<pvars, rvars, cvars>>
    \/ DequeueReceive /\ UNCHANGED <<pvars, rvars, cvars>>
    \/ DequeueCopyReturn /\ UNCHANGED <<pvars, rvars, cvars>>
    \/ DequeueTimeout /\ UNCHANGED <<pvars, rvars, cvars>>

(***************************************************************************)
(* vault_mqtt: the connection flag, vault_mqtt_publish_event and           *)
(* vault_mqtt_handle_replay.                                               *)
(***************************************************************************)
\* mqtt_event_handler, MQTT_EVENT_CONNECTED.
MqttEventConnected ==
    /\ ~mqtt_connected
    /\ mqtt_connected' = TRUE
    /\ UNCHANGED <<net_published, heartbeats, cap_pc, cap_packet, net_pc>>

\* mqtt_event_handler, MQTT_EVENT_DISCONNECTED.
MqttEventDisconnected ==
    /\ mqtt_connected
    /\ mqtt_connected' = FALSE
    /\ UNCHANGED <<net_published, heartbeats, cap_pc, cap_packet, net_pc>>

\* vault_mqtt_publish_event(mqtt, packet): false when not connected; else
\* the packet is serialized and handed to esp_mqtt_client_publish, whose
\* msg_id is negative (msg_ok false) when it fails.
PublishEvent(packet, msg_ok) ==
    IF ~mqtt_connected
    THEN [packet |-> packet, sent |-> FALSE, ok |-> FALSE]
    ELSE [packet |-> packet, sent |-> TRUE,
          data |-> vault_protocol_serialize(packet), ok |-> msg_ok]

\* A replay loop body that marks the packet and leaves the old checksum.
ReplayPacketNoFinalize(p) ==
    [p EXCEPT !.flags = BitOr(p.flags, VAULT_FLAG_IS_REPLAY)]

\* The body of the replay loop before the publish:
\* packets[i].flags |= VAULT_FLAG_IS_REPLAY, then finalize.
ReplayPacket(p) ==
    vault_protocol_finalize_packet(
        [p EXCEPT !.flags = BitOr(p.flags, VAULT_FLAG_IS_REPLAY)])

RECURSIVE ReplayLoopStopOnFailure(_, _, _, _)
\* A replay loop that gives up at the first publish that fails.
ReplayLoopStopOnFailure(packets, i, fails, out) ==
    IF i > Len(packets) THEN out
    ELSE LET r == PublishEvent(ReplayPacket(packets[i]), i \notin fails)
         IN IF r.ok
            THEN ReplayLoopStopOnFailure(packets, i + 1, fails, Append(out, r))
            ELSE Append(out, r)

RECURSIVE ReplayLoop(_, _, _, _)
\* for (i = 0; i < count; i++): mark, finalize, publish, the result of the
\* publish ignored.  `fails` are the iterations whose esp_mqtt_client_publish
\* fails; `out` is what the publisher was called with so far.
ReplayLoop(packets, i, fails, out) ==
    IF i > Len(packets) THEN out
    ELSE ReplayLoop(packets, i + 1, fails,
                    Append(out, PublishEvent(ReplayPacket(packets[i]), i \notin fails)))

\* What a call of vault_mqtt_handle_replay that retrieved `packets` does and
\* returns: the calls of the publisher in order, and the count retrieved.
ReplayResult(seq_start, seq_end, packets, fails) ==
    [op |-> "replay", seq_start |-> seq_start, seq_end |-> seq_end,
     connected |-> TRUE, retrieved |-> packets,
     calls |-> ReplayLoop(packets, 1, fails, <<>>),
     count |-> Len(packets)]

\* A replay that sets the replay flag in the slots of the history instead
\* of in its copies.
HandleReplayInPlace(seq_start, seq_end, fails) ==
    /\ ret' = IF ~mqtt_connected
              THEN [op |-> "replay", seq_start |-> seq_start, seq_end |-> seq_end,
                    connected |-> FALSE, retrieved |-> <<>>, calls |-> <<>>,
                    count |-> 0]
              ELSE ReplayResult(seq_start, seq_end,
                                GetRangeResult(seq_start, seq_end, max_replay), fails)
    /\ history_buffer' =
          [a \in DOMAIN history_buffer |->
              IF /\ mqtt_connected
                 /\ \E i \in 0 .. SearchCount - 1 :
                       /\ a = ScanPos(i) * PacketSize + 7
                       /\ ScanPacket(i).seq >= seq_start
                       /\ ScanPacket(i).seq <= seq_end
              THEN BitOr(history_buffer[a], VAULT_FLAG_IS_REPLAY)
              ELSE history_buffer[a]]
    /\ UNCHANGED <<history_write_pos, history_count, heap_overrun, stored,
                   last_store>>
    /\ UNCHANGED <<svars, qvars, pvars>>

\* A replay that publishes nothing when it is asked for the range it served
\* last.
HandleReplaySuppressRepeat(seq_start, seq_end, fails) ==
    /\ ret' = IF ~mqtt_connected
              THEN [op |-> "replay", seq_start |-> seq_start, seq_end |-> seq_end,
                    connected |-> FALSE, retrieved |-> <<>>, calls |-> <<>>,
                    count |-> 0]
              ELSE LET result == ReplayResult(seq_start, seq_end,
                                     GetRangeResult(seq_start, seq_end, max_replay),
                                     fails)
                   IN IF /\ ret.op = "replay"
                         /\ ret.seq_start = seq_start
                         /\ ret.seq_end = seq_end
                      THEN [result EXCEPT !.calls = <<>>]
                      ELSE result
    /\ UNCHANGED <<history_buffer, history_write_pos, history_count,
                   heap_overrun, stored, last_store>>
    /\ UNCHANGED <<svars, qvars, pvars>>

\* vault_mqtt_handle_replay(mqtt, seq_start, seq_end) as one step.
HandleReplay(seq_start, seq_end, fails) ==
    /\ ret' = IF ~mqtt_connected
              THEN [op |-> "replay", seq_start |-> seq_start, seq_end |-> seq_end,
                    connected |-> FALSE, retrieved |-> <<>>, calls |-> <<>>,
                    count |-> 0]
              ELSE ReplayResult(seq_start, seq_end,
                                GetRangeResult(seq_start, seq_end, max_replay), fails)
    /\ UNCHANGED <<history_buffer, history_write_pos, history_count,
                   heap_overrun, stored, last_store>>
    /\ UNCHANGED <<svars, qvars, pvars>>

\* A handler that takes the 13 bytes of the payload for a packet without
\* parsing them.
MqttEventDataNoParse(payload, registered, fails) ==
    /\ cmd_messages < MaxCommands
    /\ cmd_messages' = cmd_messages + 1
    /\ codec_bytes' = payload
    /\ codec_parsed' = vault_protocol_parse(payload)
    /\ UNCHANGED <<codec_record, codec_log, mvars, gvars>>
    /\ LET taken == Len(payload) = PacketSize
           packet == PacketAt([a \in 0 .. PacketSize - 1 |-> payload[a + 1]], 0)
       IN /\ IF taken /\ packet.cmd = VAULT_CMD_REPLAY
             THEN /\ HandleReplay(packet.seq, packet.val, fails)
                  /\ cmd_replays' = Append(cmd_replays, <<packet.seq, packet.val>>)
             ELSE /\ UNCHANGED <<hvars, svars, qvars, pvars>>
                  /\ UNCHANGED cmd_replays
          /\ cmd_callbacks' = IF taken /\ registered
                              THEN Append(cmd_callbacks, packet)
                              ELSE cmd_callbacks

\* mqtt_event_handler, MQTT_EVENT_DATA on the command topic: the payload is
\* parsed; a packet with cmd VAULT_CMD_REPLAY starts the replay of seq to
\* val; every parsed packet goes to the command callback if one is
\* registered.  `fails` are the publishes of the replay that fail.
MqttEventData(payload, registered, fails) ==
    /\ cmd_messages < MaxCommands
    /\ cmd_messages' = cmd_messages + 1
    /\ codec_bytes' = payload
    /\ codec_parsed' = vault_protocol_parse(payload)
    /\ UNCHANGED <<codec_record, codec_log, mvars, gvars>>
    /\ LET parsed == vault_protocol_parse(payload)
       IN /\ IF parsed.ok /\ parsed.packet.cmd = VAULT_CMD_REPLAY
             THEN /\ HandleReplay(parsed.packet.seq, parsed.packet.val, fails)
                  /\ cmd_replays' = Append(cmd_replays,
                                           <<parsed.packet.seq, parsed.packet.val>>)
             ELSE /\ UNCHANGED <<hvars, svars, qvars, pvars>>
                  /\ UNCHANGED cmd_replays
          /\ cmd_callbacks' = IF parsed.ok /\ registered
                              THEN Append(cmd_callbacks, parsed.packet)
                              ELSE cmd_callbacks

(***************************************************************************)
(* vault_memory_store_history in capture_task and the replay that          *)
(* mqtt_event_handler starts in the MQTT client's task, step by step.      *)
(* Neither function takes a lock, and the handler calls                    *)
(* vault_mqtt_handle_replay itself.  The memcpy of the store proceeds in   *)
(* chunks (the next byte, or all the rest); one iteration of the loop of    *)
(* get_range is one step.                                                  *)
(***************************************************************************)
\* Entry of vault_memory_store_history(mem, packet).
StoreBegin(packet) ==
    /\ st_pc = "idle"
    /\ Len(stored) < MaxStores
    /\ st_pc' = "memcpy"
    /\ st_packet' = packet
    /\ st_copied' = 0
    /\ UNCHANGED <<rd_pc, rd_req, rd_count, rd_i, rd_out>>
    /\ UNCHANGED <<hvars, svars, qvars, pvars, cvars>>

\* memcpy writes the next n bytes of the packet.
StoreCopy(n) ==
    /\ st_pc = "memcpy"
    /\ n >= 1
    /\ st_copied + n <= PacketSize
    /\ LET offset == StoreOffset(history_write_pos)
           bytes == PacketBytes(st_packet)
       IN /\ history_buffer' =
                [a \in DOMAIN history_buffer |->
                    IF a >= offset + st_copied /\ a < offset + st_copied + n
                    THEN bytes[a - offset + 1]
                    ELSE history_buffer[a]]
          /\ heap_overrun' = heap_overrun \cup
                {a \in offset + st_copied .. offset + st_copied + n - 1 :
                    a >= HistoryBufferSize}
          /\ last_store' = [offset |-> offset, write_pos |-> history_write_pos,
                             count |-> history_count]
    /\ st_copied' = st_copied + n
    /\ st_pc' = IF st_copied + n = PacketSize THEN "advance" ELSE "memcpy"
    /\ UNCHANGED <<history_write_pos, history_count, stored, ret>>
    /\ UNCHANGED <<st_packet, rd_pc, rd_req, rd_count, rd_i, rd_out>>
    /\ UNCHANGED <<svars, qvars, pvars, cvars>>

\* mem->history_write_pos++.
StoreAdvance ==
    /\ st_pc = "advance"
    /\ history_write_pos' = (history_write_pos + 1) % WordModulus
    /\ st_pc' = "count"
    /\ UNCHANGED <<history_buffer, history_count, heap_overrun, stored,
                   last_store, ret>>
    /\ UNCHANGED <<st_packet, st_copied, rd_pc, rd_req, rd_count, rd_i, rd_out>>
    /\ UNCHANGED <<svars, qvars, pvars, cvars>>

\* if (mem->history_count < VAULT_HISTORY_MAX_ENTRIES) mem->history_count++;
\* return true.
StoreCount ==
    /\ st_pc = "count"
    /\ history_count' = IF history_count < VAULT_HISTORY_MAX_ENTRIES
                        THEN history_count + 1 ELSE history_count
    /\ stored' = Append(stored, st_packet)
    /\ ret' = [op |-> "store", ok |-> TRUE]
    /\ st_pc' = "idle"
    /\ st_copied' = 0
    /\ UNCHANGED <<history_buffer, history_write_pos, heap_overrun, last_store>>
    /\ UNCHANGED <<st_packet, rd_pc, rd_req, rd_count, rd_i, rd_out>>
    /\ UNCHANGED <<svars, qvars, pvars, cvars>>

\* mqtt_event_handler, MQTT_EVENT_DATA with a VAULT_CMD_REPLAY packet:
\* vault_mqtt_handle_replay(mqtt, packet.seq, packet.val) up to the read of
\* history_count in vault_memory_get_range.
ReplayBegin(seq_start, seq_end) ==
    /\ rd_pc = "idle"
    /\ IF ~mqtt_connected
       THEN /\ ret' = [op |-> "replay", seq_start |-> seq_start,
                       seq_end |-> seq_end, connected |-> FALSE,
                       retrieved |-> <<>>, calls |-> <<>>, count |-> 0]
            /\ UNCHANGED <<rd_pc, rd_req, rd_count>>
       ELSE /\ rd_pc' = "scan"
            /\ rd_req' = <<seq_start, seq_end>>
            /\ rd_count' = SearchCount
            /\ UNCHANGED ret
    /\ UNCHANGED <<rd_i, rd_out, st_pc, st_packet, st_copied>>
    /\ UNCHANGED <<history_buffer, history_write_pos, history_count,
                   heap_overrun, stored, last_store>>
    /\ UNCHANGED <<svars, qvars, pvars, cvars>>

\* One iteration of the loop of vault_memory_get_range: pos from the write
\* position as it is now, the compare, the memcpy out of the slot.
ReplayScan ==
    /\ rd_pc = "scan"
    /\ rd_i < rd_count
    /\ Len(rd_out) < max_replay
    /\ LET pos == ((history_write_pos - rd_count + rd_i) % WordModulus)
                      % VAULT_HISTORY_MAX_ENTRIES
           p == PacketAt(history_buffer, pos * PacketSize)
       IN rd_out' = IF p.seq >= rd_req[1] /\ p.seq <= rd_req[2]
                    THEN Append(rd_out, p) ELSE rd_out
    /\ rd_i' = rd_i + 1
    /\ UNCHANGED <<rd_pc, rd_req, rd_count, st_pc, st_packet, st_copied>>
    /\ UNCHANGED <<hvars, svars, qvars, pvars, cvars>>

\* The loop of get_range has ended: the replay loop and the return.
ReplayPublish(fails) ==
    /\ rd_pc = "scan"
    /\ ~(rd_i < rd_count /\ Len(rd_out) < max_replay)
    /\ ret' = ReplayResult(rd_req[1], rd_req[2], rd_out, fails)
    /\ rd_pc' = "idle"
    /\ rd_req' = <<0, 0>>
    /\ rd_count' = 0
    /\ rd_i' = 0
    /\ rd_out' = <<>>
    /\ UNCHANGED <<st_pc, st_packet, st_copied>>
    /\ UNCHANGED <<history_buffer, history_write_pos, history_count,
                   heap_overrun, stored, last_store>>
    /\ UNCHANGED <<svars, qvars, pvars, cvars>>

(***************************************************************************)
(* The history model: stores of packets with distinct sequence numbers in  *)
(* any order, and reads in between.                                        *)
(***************************************************************************)
StoredSeqs == {stored[i].seq : i \in 1 .. Len(stored)}

HistoryInit ==
    /\ history_buffer = [a \in 0 .. HistoryBufferSize - 1 |-> Uninit]
    /\ history_write_pos = 0
    /\ history_count = 0
    /\ heap_overrun = {}
    /\ stored = <<>>
    /\ last_store = [offset |-> 0, write_pos |-> -1, count |-> 0]
    /\ ret = [op |-> "init"]

\* vault_mqtt_init leaves connected false; the tasks have not run yet.
PipeInit ==
    /\ mqtt_connected = FALSE
    /\ net_published = {}
    /\ heartbeats = {}
    /\ cap_pc = "seq"
    /\ cap_packet = vault_protocol_init_packet(0, 0)
    /\ net_pc = "dequeue"

RaceInit ==
    /\ st_pc = "idle"
    /\ st_packet = vault_protocol_init_packet(0, 0)
    /\ st_copied = 0
    /\ rd_pc = "idle"
    /\ rd_req = <<0, 0>>
    /\ rd_count = 0
    /\ rd_i = 0
    /\ rd_out = <<>>

\* What is known of the codec's record and bytes before anything was done
\* to the record r.
FreshLog(r) ==
    [ state        |-> "raw",
      valid        |-> "unchecked",
      raw          |-> r,
      source_state |-> "none",
      source       |-> r,
      damage       |-> 0,
      parsed       |-> FALSE ]

\* Nothing has been handed to the codec, no message has arrived.
CmdInit ==
    /\ codec_record = vault_protocol_init_packet(0, 0)
    /\ codec_bytes = <<>>
    /\ codec_parsed = [ok |-> FALSE, error |-> "None"]
    /\ codec_log = FreshLog(vault_protocol_init_packet(0, 0))
    /\ cmd_messages = 0
    /\ cmd_replays = <<>>
    /\ cmd_callbacks = <<>>

\* The blocks vault_memory_init allocates: the structure, the history
\* region, the storage of the ring buffer and its control structure.
Blocks == {"mem", "history_buffer", "ringbuf_storage", "ringbuf_struct"}

\* vault_memory_init has returned the manager: its four blocks are allocated.
MemInitDone ==
    /\ heap = [b \in Blocks |-> 1]
    /\ mem_pc = "up"
    /\ mem_log = [deinit |-> "none", init |-> "ok", inits |-> 0, clean |-> TRUE]

\* The tasks app_main creates.
Tasks == {"capture", "logic", "network", "health"}

\* The tasks vault_provisioning_enter_setup_mode suspends.
SetupSuspends == {"capture", "logic", "health"}

\* No configuration has been stored by provisioning.
NoConfig == 0

\* The device is operational: no provisioning message has arrived, all
\* tasks run, nobody is inside the NVS library.
ProvInit ==
    /\ prov_pc = "idle"
    /\ prov_msg = [config |-> NoConfig, fate |-> "none", stored_before |-> NoConfig]
    /\ prov_count = 0
    /\ prov_log = <<>>
    /\ prov_stored = NoConfig
    /\ in_setup_mode = FALSE
    /\ suspended = {}
    /\ nvs_lock = "free"

Init ==
    /\ HistoryInit /\ SeqInit /\ QueueInit /\ PipeInit /\ RaceInit /\ CmdInit
    /\ MemInitDone /\ ProvInit

(***************************************************************************)
(* vault_memory_deinit and a further vault_memory_init, with the heap.     *)
(***************************************************************************)
\* What of the allocator's state neither deinit nor init writes.
LifeFrame ==
    UNCHANGED <<pvars, rvars, codec_record, codec_bytes, codec_parsed,
                codec_log, cmd_messages, cmd_replays, cmd_callbacks, gvars>>

\* A deinit that frees without the final sync.
DeinitNoSync(sync_ok) ==
    /\ mem_pc = "up"
    /\ \A c \in Contexts : pc[c] = "idle"
    /\ heap' = [heap EXCEPT !["history_buffer"] = @ - 1, !["mem"] = @ - 1]
    /\ mem_pc' = "gone"
    /\ mem_log' = [mem_log EXCEPT !.deinit = IF sync_ok THEN "ok" ELSE "failed",
                                  !.clean = @ /\ sync_ok]
    /\ UNCHANGED <<hvars, svars, qvars>>
    /\ LifeFrame

\* vault_memory_deinit(mem), with no task inside the manager: the final
\* vault_memory_sync_seq_to_nvs, which succeeds or fails; vRingbufferDelete,
\* which for a ring buffer made by xRingbufferCreateStatic releases neither
\* the storage nor the control structure; free(mem->history_buffer);
\* free(mem).
Deinit(sync_ok) ==
    /\ mem_pc = "up"
    /\ \A c \in Contexts : pc[c] = "idle"
    /\ IF sync_ok
       THEN /\ nvs_value' = seq_counter
            /\ seq_last_synced' = seq_counter
            /\ sync_at' = Append(sync_at, seq_counter - boot_seq)
       ELSE /\ nvs_value' \in {nvs_value, seq_counter}
            /\ UNCHANGED <<seq_last_synced, sync_at>>
    /\ heap' = [heap EXCEPT !["history_buffer"] = @ - 1, !["mem"] = @ - 1]
    /\ mem_pc' = "gone"
    /\ mem_log' = [mem_log EXCEPT !.deinit = IF sync_ok THEN "ok" ELSE "failed",
                                  !.clean = @ /\ sync_ok]
    /\ UNCHANGED <<seq_counter, nvs_staged, pc, seq_local, boot_seq, calls,
                   last_ret, issued, prev_issued, reboots>>
    /\ UNCHANGED <<hvars, qvars>>
    /\ LifeFrame

\* The ways vault_memory_init ends: no memory for the structure, for the
\* history region, for the storage or the control structure of the ring
\* buffer; xRingbufferCreateStatic returns NULL; the counter cannot be
\* loaded; all goes well.
InitOutcomes ==
    {"no_mem", "no_history", "no_ringbuf", "no_queue", "load_failed", "ok"}

\* vault_memory_init() as a whole, after a deinit or a failed init.  On a
\* failure every block allocated so far is freed and NULL returned.
\* Otherwise the structure is zeroed, the blocks stay, and the counter is
\* the loaded one, or 0 if the load failed.
MemInit(outcome) ==
    /\ mem_pc \in {"gone", "null"}
    /\ mem_log.inits < MaxReboots
    /\ outcome = "ok" => nvs_value # NoValue
    /\ IF outcome \in {"ok", "load_failed"}
       THEN /\ heap' = [b \in Blocks |-> heap[b] + 1]
            /\ mem_pc' = "up"
            /\ seq_counter' = IF outcome = "ok" THEN nvs_value ELSE 0
            /\ seq_last_synced' = seq_counter'
            /\ boot_seq' = seq_counter'
            /\ calls' = [c \in Contexts |-> 0]
            /\ last_ret' = [c \in Contexts |-> NoValue]
            /\ prev_issued' = prev_issued \cup issued
            /\ issued' = {}
            /\ sync_at' = <<>>
            /\ history_buffer' = [a \in 0 .. HistoryBufferSize - 1 |-> Uninit]
            /\ history_write_pos' = 0
            /\ history_count' = 0
            /\ heap_overrun' = {}
            /\ stored' = <<>>
            /\ last_store' = [offset |-> 0, write_pos |-> -1, count |-> 0]
            /\ ret' = [op |-> "init"]
            /\ network_queue' = <<>>
            /\ rb_held' = FALSE
            /\ accepted' = <<>>
            /\ received' = <<>>
            /\ timeouts' = 0
            /\ rx_pc' = "idle"
            /\ rx_ticks' = 0
            /\ rx_packet' = vault_protocol_init_packet(0, 0)
            /\ UNCHANGED <<nvs_value, nvs_staged, pc, seq_local, reboots>>
       ELSE /\ heap' = heap
            /\ mem_pc' = "null"
            /\ UNCHANGED <<hvars, svars, qvars>>
    /\ mem_log' = [mem_log EXCEPT !.init = outcome,
                                  !.inits = @ + 1,
                                  !.clean = @ /\ outcome = "ok"]
    /\ LifeFrame

\* Short sessions of the allocator between init and deinit.
ShutdownNext ==
    \/ /\ mem_pc = "up"
       /\ \E c \in Contexts : GetNextSeqStep(c)
       /\ seq_counter' - boot_seq <= MaxInitCalls
       /\ UNCHANGED <<pvars, rvars, cvars>>
    \/ \E sync_ok \in BOOLEAN : Deinit(sync_ok)
    \/ \E outcome \in InitOutcomes : MemInit(outcome)

ShutdownSpec == Init /\ [][ShutdownNext]_vars

\* The sequence numbers offered to the next store: the two smallest ones not
\* stored yet, so that packets arrive in order and out of order.
StoreChoices ==
    LET unused == (0 .. MaxStoreSeq - 1) \ StoredSeqs
    IN {s \in unused : Cardinality({u \in unused : u < s}) <= 1}

\* The range bounds offered to get_range for a start: an empty range, a
\* short one and the one up to the largest sequence number.
RangeEnds(seq_start) ==
    {e \in {seq_start - 1, seq_start + 1, MaxStoreSeq - 1} : e >= 0}

HistoryNext ==
    \/ /\ \E s \in StoreChoices : StoreHistory(EventPacket(s))
       /\ UNCHANGED <<pvars, rvars, cvars>>
    \/ /\ \E s \in 0 .. MaxStoreSeq - 1 : FindBySeq(s)
       /\ UNCHANGED <<pvars, rvars, cvars>>
    \/ /\ \E s \in 0 .. MaxStoreSeq - 1, m \in {0, 2, 10} :
             \E e \in RangeEnds(s) : GetRange(s, e, m)
       /\ UNCHANGED <<pvars, rvars, cvars>>

\* vault_mqtt_publish_heartbeat returning false at its first test.
HeartbeatRefused ==
    /\ ret' = [op |-> "heartbeat", ok |-> FALSE]
    /\ UNCHANGED <<history_buffer, history_write_pos, history_count,
                   heap_overrun, stored, last_store>>
    /\ UNCHANGED <<svars, qvars, pvars, rvars, cvars>>

\* A heartbeat that fetches its sequence number before it looks at the
\* connection.
HealthHeartbeatFetchFirst ==
    \/ /\ pc["health"] = "idle" /\ ~mqtt_connected
       /\ HeartbeatRefused
    \/ /\ GetNextSeqStep("health")
       /\ heartbeats' = IF pc'["health"] = "idle" /\ mqtt_connected
                        THEN heartbeats \cup {HeartbeatPacket(last_ret'["health"])}
                        ELSE heartbeats
       /\ UNCHANGED <<mqtt_connected, net_published, cap_pc, cap_packet, net_pc>>
       /\ UNCHANGED <<rvars, cvars>>

\* health_task: vault_mqtt_publish_heartbeat.  Called while the client is
\* not connected it returns false; else, with the return of
\* vault_memory_get_next_seq, the heartbeat packet is built, serialized and
\* handed to esp_mqtt_client_publish.
HealthHeartbeat ==
    \/ /\ pc["health"] = "idle" /\ ~mqtt_connected
       /\ HeartbeatRefused
    \/ /\ pc["health"] = "idle" => mqtt_connected
       /\ GetNextSeqStep("health")
       /\ heartbeats' = IF pc'["health"] = "idle"
                        THEN heartbeats \cup {HeartbeatPacket(last_ret'["health"])}
                        ELSE heartbeats
       /\ UNCHANGED <<mqtt_connected, net_published, cap_pc, cap_packet, net_pc>>
       /\ UNCHANGED <<rvars, cvars>>

(***************************************************************************)
(* The replay model: stores as above, the connection coming and going,     *)
(* replay commands and the heartbeat of health_task in between.            *)
(***************************************************************************)
\* The ranges a replay command asks for: everything, and two neighbours.
ReplayRequests == {<<0, MaxStoreSeq - 1>>, <<1, 2>>}

\* The sets of loop iterations in which esp_mqtt_client_publish fails.
PublishFailures == SUBSET (1 .. max_replay)

ReplayNext ==
    \/ /\ \E s \in StoreChoices : StoreHistory(EventPacket(s))
       /\ UNCHANGED <<pvars, rvars, cvars>>
    \/ /\ MqttEventConnected
       /\ UNCHANGED <<hvars, svars, qvars, rvars, cvars>>
    \/ /\ MqttEventDisconnected
       /\ UNCHANGED <<hvars, svars, qvars, rvars, cvars>>
    \/ /\ \E r \in ReplayRequests, fails \in PublishFailures :
             HandleReplay(r[1], r[2], fails)
       /\ UNCHANGED <<rvars, cvars>>
    \/ HealthHeartbeat

(***************************************************************************)
(* Remote provisioning: provisioning_message_handler runs in the task of   *)
(* the MQTT client while capture_task and health_task fetch identifiers.   *)
(* Every call of the NVS library runs under the library's one lock; a task *)
(* suspended inside such a call keeps the lock.                            *)
(***************************************************************************)
\* How a provisioning message fares: the step that fails, or "applied".
ProvFates ==
    {"parse_error", "wifi_failed", "mqtt_failed", "open_failed", "set_failed",
     "commit_failed", "applied"}

\* The status vault_provisioning_send_response is called with.
ProvStatus(fate) ==
    IF fate \in {"open_failed", "set_failed", "commit_failed"}
    THEN "memory_error" ELSE fate

ProvFrame ==
    UNCHANGED <<hvars, svars, qvars, pvars, rvars, codec_record, codec_bytes,
                codec_parsed, codec_log, cmd_messages, cmd_replays,
                cmd_callbacks, mvars>>

\* An enter_setup_mode that suspends network_task as well.
EnterSetupModeAll == suspended' = suspended \cup Tasks /\ in_setup_mode' = TRUE

\* vault_provisioning_enter_setup_mode: vTaskSuspend of capture, logic and
\* health task, in_setup_mode = true.
EnterSetupMode ==
    /\ suspended' = suspended \cup SetupSuspends
    /\ in_setup_mode' = TRUE

\* vault_provisioning_exit_setup_mode: nothing outside setup mode; else
\* vTaskResume of the three tasks, in_setup_mode = false.
ExitSetupMode ==
    IF ~in_setup_mode
    THEN UNCHANGED <<suspended, in_setup_mode>>
    ELSE /\ suspended' = suspended \ SetupSuspends
         /\ in_setup_mode' = FALSE

\* The handler on entry: a message arrives, setup mode is entered.
ProvEnter(fate) ==
    /\ prov_pc = "idle"
    /\ prov_count < MaxProvMessages
    /\ prov_count' = prov_count + 1
    /\ prov_msg' = [config |-> prov_count', fate |-> fate,
                    stored_before |-> prov_stored]
    /\ EnterSetupMode
    /\ prov_log' = <<"suspend">>
    /\ prov_pc' = "parse"
    /\ UNCHANGED <<prov_stored, nvs_lock>>
    /\ ProvFrame

\* A failure that sends no response.
ProvFailSilent(event) ==
    /\ ExitSetupMode
    /\ prov_log' = prov_log \o <<event, "resume">>
    /\ prov_pc' = "idle"
    /\ UNCHANGED <<prov_msg, prov_count, nvs_lock>>

\* A step of the handler fails: vault_provisioning_send_response with the
\* status of the step, vault_provisioning_exit_setup_mode, return.
ProvFail(event) ==
    /\ ExitSetupMode
    /\ prov_log' = prov_log \o <<event, "response:" \o ProvStatus(prov_msg.fate),
                                 "resume">>
    /\ prov_pc' = "idle"
    /\ UNCHANGED <<prov_msg, prov_count, nvs_lock>>

\* A step of the handler succeeds.
ProvPass(event, next) ==
    /\ prov_log' = Append(prov_log, event)
    /\ prov_pc' = next
    /\ UNCHANGED <<prov_msg, prov_count, in_setup_mode, suspended, nvs_lock>>

\* vault_provisioning_parse_config
ProvParse ==
    /\ prov_pc = "parse"
    /\ IF prov_msg.fate = "parse_error"
       THEN ProvFail("parse_failed")
       ELSE ProvPass("parsed", "test_wifi")
    /\ UNCHANGED prov_stored
    /\ ProvFrame

\* vault_provisioning_apply_config, step 1: vault_provisioning_test_wifi
ProvTestWifi ==
    /\ prov_pc = "test_wifi"
    /\ IF prov_msg.fate = "wifi_failed"
       THEN ProvFail("wifi_invalid")
       ELSE ProvPass("wifi_valid", "test_mqtt")
    /\ UNCHANGED prov_stored
    /\ ProvFrame

\* vault_provisioning_apply_config, step 2: vault_provisioning_test_mqtt
ProvTestMqtt ==
    /\ prov_pc = "test_mqtt"
    /\ IF prov_msg.fate = "mqtt_failed"
       THEN ProvFail("mqtt_invalid")
       ELSE ProvPass("mqtt_valid", "save_open")
    /\ UNCHANGED prov_stored
    /\ ProvFrame

\* vault_provisioning_save_config: nvs_open, once the lock of the library
\* is free.
ProvSaveOpen ==
    /\ prov_pc = "save_open"
    /\ nvs_lock = "free"
    /\ IF prov_msg.fate = "open_failed"
       THEN ProvFail("nvs_open_failed")
       ELSE ProvPass("nvs_open", "save_set")
    /\ UNCHANGED prov_stored
    /\ ProvFrame

\* vault_provisioning_save_config: nvs_set_blob and, if it fails, nvs_close.
ProvSaveSet ==
    /\ prov_pc = "save_set"
    /\ nvs_lock = "free"
    /\ IF prov_msg.fate = "set_failed"
       THEN ProvFail("nvs_set_failed")
       ELSE ProvPass("nvs_set", "save_commit")
    /\ UNCHANGED prov_stored
    /\ ProvFrame

\* vault_provisioning_save_config: nvs_commit and nvs_close.  When the
\* commit fails the blob set before may or may not have reached the flash.
ProvSaveCommit ==
    /\ prov_pc = "save_commit"
    /\ nvs_lock = "free"
    /\ IF prov_msg.fate = "commit_failed"
       THEN /\ prov_stored' \in {prov_stored, prov_msg.config}
            /\ ProvFail("nvs_commit_failed")
       ELSE /\ prov_stored' = prov_msg.config
            /\ ProvPass("saved", "respond")
    /\ ProvFrame

\* vault_provisioning_apply_config, step 4: the response "applied".
ProvRespond ==
    /\ prov_pc = "respond"
    /\ ProvPass("response:applied", "restart")
    /\ UNCHANGED prov_stored
    /\ ProvFrame

\* vault_provisioning_apply_config, step 5: vTaskDelay and esp_restart.
ProvRestart ==
    /\ prov_pc = "restart"
    /\ ProvPass("restart", "restarted")
    /\ UNCHANGED prov_stored
    /\ ProvFrame

\* vault_provisioning_exit_setup_mode called while no message is handled.
ProvExitOutside ==
    /\ prov_pc = "idle"
    /\ IF prov_log = <<>> THEN TRUE ELSE prov_log[Len(prov_log)] # "exit_call"
    /\ ExitSetupMode
    /\ prov_log' = Append(prov_log, "exit_call")
    /\ UNCHANGED <<prov_pc, prov_msg, prov_count, prov_stored, nvs_lock>>
    /\ ProvFrame

\* A task enters nvs_set_u32 or nvs_commit: it takes the lock of the
\* library.
NvsLockTake(c) ==
    /\ pc[c] \in {"nvs_set", "nvs_commit"}
    /\ nvs_lock = "free"
    /\ nvs_lock' = c
    /\ UNCHANGED <<prov_pc, prov_msg, prov_count, prov_log, prov_stored,
                   in_setup_mode, suspended>>
    /\ ProvFrame

\* The frame of a step of a task outside the provisioning handler.
TaskFrame ==
    UNCHANGED <<pvars, rvars, codec_record, codec_bytes, codec_parsed,
                codec_log, cmd_messages, cmd_replays, cmd_callbacks, mvars,
                prov_pc, prov_msg, prov_count, prov_log, prov_stored,
                in_setup_mode, suspended>>

\* A task that is not suspended takes a step of vault_memory_get_next_seq;
\* nvs_set_u32 and nvs_commit run with the lock taken and release it.
TaskSeqStep(c) ==
    /\ c \notin suspended
    /\ prov_pc # "restarted"
    /\ \/ /\ GetNextSeqFetch(c) \/ GetNextSeqNoSync(c) \/ GetNextSeqSyncDue(c)
             \/ SyncMark(c)
          /\ seq_counter' - boot_seq <= MaxProvCalls
          /\ UNCHANGED nvs_lock
          /\ TaskFrame
       \/ /\ NvsLockTake(c)
       \/ /\ nvs_lock = c
          /\ SyncSet(c) \/ SyncCommit(c)
          /\ nvs_lock' = "free"
          /\ TaskFrame

ProvHandlerStep ==
    \/ \E fate \in ProvFates : ProvEnter(fate)
    \/ ProvParse
    \/ ProvTestWifi
    \/ ProvTestMqtt
    \/ ProvSaveOpen
    \/ ProvSaveSet
    \/ ProvSaveCommit
    \/ ProvRespond
    \/ ProvRestart

ProvNext ==
    \/ ProvHandlerStep
    \/ ProvExitOutside
    \/ \E c \in Contexts : TaskSeqStep(c)

\* The scheduler runs every task that can run: the handler in the task of
\* the MQTT client, and capture_task and health_task unless suspended.
ProvFairness ==
    /\ WF_vars(ProvParse \/ ProvTestWifi \/ ProvTestMqtt \/ ProvSaveOpen
                \/ ProvSaveSet \/ ProvSaveCommit \/ ProvRespond \/ ProvRestart)
    /\ \A c \in Contexts : WF_vars(TaskSeqStep(c))

(***************************************************************************)
(* The command topic: capture_task's events stored in order, the           *)
(* connection coming and going, and messages of every kind arriving.       *)
(***************************************************************************)
\* A byte other than b.
OtherByte(b) == (b + 1) % 256

\* The payloads that arrive: two replay requests, an event and a heartbeat
\* (valid packets with another command), and a replay request cut short,
\* extended by a byte, sent with a wrong head (the checksum fitting), with
\* a wrong checksum, and with its range changed under the old checksum.
CommandPayloads ==
    LET request == vault_protocol_serialize(ReplayCommand(1, 2))
        wrong_head == vault_protocol_finalize_packet(
                          [ReplayCommand(1, 2) EXCEPT !.head = 85])
    IN { request,
         vault_protocol_serialize(ReplayCommand(0, MaxStoreSeq - 1)),
         vault_protocol_serialize(EventPacket(1)),
         vault_protocol_serialize(HeartbeatPacket(1)),
         SubSeq(request, 1, PacketSize - 1),
         Append(request, 0),
         <<>>,
         vault_protocol_serialize(wrong_head),
         [request EXCEPT ![PacketSize] = OtherByte(@)],
         [request EXCEPT ![3] = OtherByte(@)] }

(***************************************************************************)
(* The codec on its own: a caller's record is finalized, validated,        *)
(* serialized; the bytes travel, may be changed on the way, and are        *)
(* parsed.                                                                 *)
(***************************************************************************)
\* The records handed to the codec: every field takes its smallest value,
\* its largest one that the model's integers hold, and one in between.
CodecRecords ==
    { [ head  |-> VAULT_PROTO_HEAD,
        cmd   |-> cmd,
        seq   |-> seq,
        pin   |-> pin,
        flags |-> flags,
        val   |-> val,
        crc   |-> 0 ] :
        cmd \in {0, VAULT_CMD_EVENT, 255},
        seq \in {0, 16909060, 2147483647},
        pin \in {5, 255},
        flags \in {0, 255},
        val \in {0, 1000, 2130706433} }

\* A caller holds one of the records; nothing else has happened.
CodecInit ==
    /\ HistoryInit /\ SeqInit /\ QueueInit /\ PipeInit /\ RaceInit
    /\ codec_record \in CodecRecords
    /\ codec_bytes = <<>>
    /\ codec_parsed = [ok |-> FALSE, error |-> "None"]
    /\ codec_log = FreshLog(codec_record)
    /\ MemInitDone
    /\ ProvInit
    /\ cmd_messages = 0
    /\ cmd_replays = <<>>
    /\ cmd_callbacks = <<>>

CodecFrame ==
    UNCHANGED <<hvars, svars, qvars, pvars, rvars, cmd_messages, cmd_replays,
                cmd_callbacks, mvars, gvars>>

\* vault_protocol_finalize_packet(&packet) on the caller's record.
CodecFinalize ==
    /\ codec_log.state = "raw"
    /\ codec_log.source_state = "none"
    /\ codec_record' = vault_protocol_finalize_packet(codec_record)
    /\ codec_log' = [codec_log EXCEPT !.state = "final", !.valid = "unchecked"]
    /\ UNCHANGED <<codec_bytes, codec_parsed>>
    /\ CodecFrame

\* The caller overwrites the head of its finalized record.
CodecChangeHead(head) ==
    /\ codec_log.state = "final"
    /\ codec_log.source_state = "none"
    /\ head # codec_record.head
    /\ codec_record' = [codec_record EXCEPT !.head = head]
    /\ codec_log' = [codec_log EXCEPT !.state = "head_changed",
                                      !.valid = "unchecked"]
    /\ UNCHANGED <<codec_bytes, codec_parsed>>
    /\ CodecFrame

\* The caller overwrites the checksum byte of its finalized record.
CodecChangeCrc(crc) ==
    /\ codec_log.state = "final"
    /\ codec_log.source_state = "none"
    /\ crc # codec_record.crc
    /\ codec_record' = [codec_record EXCEPT !.crc = crc]
    /\ codec_log' = [codec_log EXCEPT !.state = "crc_changed",
                                      !.valid = "unchecked"]
    /\ UNCHANGED <<codec_bytes, codec_parsed>>
    /\ CodecFrame

\* vault_protocol_validate_packet(&packet) on the caller's record.
CodecValidate ==
    /\ codec_log.valid = "unchecked"
    /\ codec_log.source_state = "none"
    /\ codec_log' = [codec_log EXCEPT
                        !.valid = IF vault_protocol_validate_packet(codec_record)
                                  THEN "valid" ELSE "invalid"]
    /\ UNCHANGED <<codec_record, codec_bytes, codec_parsed>>
    /\ CodecFrame

\* vault_protocol_serialize(&packet, buffer) on the caller's record.
CodecSerialize ==
    /\ codec_log.source_state = "none"
    /\ codec_bytes' = vault_protocol_serialize(codec_record)
    /\ codec_log' = [codec_log EXCEPT !.source_state = codec_log.state,
                                      !.source = codec_record]
    /\ UNCHANGED <<codec_record, codec_parsed>>
    /\ CodecFrame

\* What can happen to the bytes on their way.
DamageKinds == {"truncate", "extend", "head", "seq", "crc", "rewrite"}

\* The bytes after one change: cut short, extended, the head replaced, a bit
\* of the sequence number flipped, a bit of the checksum flipped, or a bit
\* of the sequence number flipped and the checksum made to fit again.
Damaged(data, kind) ==
    CASE kind = "truncate" -> SubSeq(data, 1, Len(data) - 1)
      [] kind = "extend"   -> Append(data, 0)
      [] kind = "head"     -> [data EXCEPT ![1] = 85]
      [] kind = "seq"      -> [data EXCEPT ![3] = OtherByte(@)]
      [] kind = "crc"      -> [data EXCEPT ![PacketSize] = OtherByte(@)]
      [] kind = "rewrite"  ->
            LET changed == [data EXCEPT ![3] = OtherByte(@)]
            IN [changed EXCEPT ![PacketSize] =
                    vault_protocol_calc_crc8(SubSeq(changed, 1, PacketSize - 1))]

\* The bytes are changed on their way to the parser.
CodecDamage(kind) ==
    /\ codec_log.source_state # "none"
    /\ codec_log.damage < MaxDamage
    /\ Len(codec_bytes) >= PacketSize
    /\ kind = "rewrite" => Len(codec_bytes) = PacketSize
    /\ codec_bytes' = Damaged(codec_bytes, kind)
    /\ codec_parsed' = [ok |-> FALSE, error |-> "None"]
    /\ codec_log' = [codec_log EXCEPT !.damage = @ + 1, !.parsed = FALSE]
    /\ UNCHANGED codec_record
    /\ CodecFrame

\* vault_protocol_parse(buffer, len, &packet) on the bytes that arrived.
CodecParse ==
    /\ codec_log.source_state # "none"
    /\ ~codec_log.parsed
    /\ codec_parsed' = vault_protocol_parse(codec_bytes)
    /\ codec_log' = [codec_log EXCEPT !.parsed = TRUE]
    /\ UNCHANGED <<codec_record, codec_bytes>>
    /\ CodecFrame

CodecNext ==
    \/ CodecFinalize
    \/ \E head \in {0, 85} : CodecChangeHead(head)
    \/ \E crc \in {(codec_record.crc + 1) % 256, 255 - codec_record.crc} :
          CodecChangeCrc(crc)
    \/ CodecValidate
    \/ CodecSerialize
    \/ \E kind \in DamageKinds : CodecDamage(kind)
    \/ CodecParse

CmdNext ==
    \/ /\ StoreHistory(EventPacket(Len(stored)))
       /\ UNCHANGED <<pvars, rvars, cvars>>
    \/ /\ MqttEventConnected
       /\ UNCHANGED <<hvars, svars, qvars, rvars, cvars>>
    \/ /\ MqttEventDisconnected
       /\ UNCHANGED <<hvars, svars, qvars, rvars, cvars>>
    \/ /\ \E payload \in CommandPayloads, registered \in BOOLEAN,
             fails \in {{}, {1}} :
                MqttEventData(payload, registered, fails)
       /\ UNCHANGED rvars

(***************************************************************************)
(* The tasks of main.c around one memory manager and one MQTT client:      *)
(* capture_task, network_task, the heartbeat of health_task, and the MQTT  *)
(* client's task with its connection events and replay commands.  Each     *)
(* call into vault_memory is one step, but for vault_memory_get_next_seq,  *)
(* which keeps its steps.                                                  *)
(***************************************************************************)
\* A capture_task that queues the packet it built and never stores it.
CaptureSeqSkipStore ==
    /\ cap_pc = "seq"
    /\ GetNextSeqStep("capture")
    /\ IF pc'["capture"] = "idle"
       THEN /\ cap_pc' = "queue"
            /\ cap_packet' = EventPacket(last_ret'["capture"])
       ELSE UNCHANGED <<cap_pc, cap_packet>>
    /\ UNCHANGED <<mqtt_connected, net_published, heartbeats, net_pc>>
    /\ UNCHANGED <<rvars, cvars>>

\* capture_task: vault_memory_get_next_seq; with its return the packet is
\* initialized, filled and finalized.
CaptureSeq ==
    /\ cap_pc = "seq"
    /\ GetNextSeqStep("capture")
    /\ IF pc'["capture"] = "idle"
       THEN /\ cap_pc' = "store"
            /\ cap_packet' = EventPacket(last_ret'["capture"])
       ELSE UNCHANGED <<cap_pc, cap_packet>>
    /\ UNCHANGED <<mqtt_connected, net_published, heartbeats, net_pc>>
    /\ UNCHANGED <<rvars, cvars>>

\* capture_task: vault_memory_store_history(g_memory, &packet).
CaptureStore ==
    /\ cap_pc = "store"
    /\ StoreHistory(cap_packet)
    /\ cap_pc' = "queue"
    /\ UNCHANGED <<mqtt_connected, net_published, heartbeats, cap_packet, net_pc>>
    /\ UNCHANGED <<rvars, cvars>>

\* capture_task: vault_memory_queue_network(g_memory, &packet, 100), its
\* result ignored, then the delay.
CaptureQueue ==
    /\ cap_pc = "queue"
    /\ QueueNetworkOk(cap_packet) \/ QueueNetworkTimeout(cap_packet)
    /\ cap_pc' = "seq"
    /\ UNCHANGED <<mqtt_connected, net_published, heartbeats, cap_packet, net_pc>>
    /\ UNCHANGED <<rvars, cvars>>

\* network_task: vault_memory_dequeue_network(g_memory, &packet, 1000).  A
\* call that times out changes nothing and the loop calls again.
NetworkDequeue ==
    /\ net_pc = "dequeue"
    /\ \/ DequeueReceive /\ UNCHANGED net_pc
       \/ DequeueCopyReturn /\ net_pc' = "publish"
    /\ UNCHANGED <<mqtt_connected, net_published, heartbeats, cap_pc, cap_packet>>
    /\ UNCHANGED <<rvars, cvars>>

\* network_task: if connected, vault_mqtt_publish_event(g_mqtt, &packet);
\* else the packet is logged as buffered and let go.
NetworkPublish ==
    /\ net_pc = "publish"
    /\ LET packet == received[Len(received)]
       IN net_published' =
             IF mqtt_connected /\ PublishEvent(packet, TRUE).sent
             THEN net_published \cup {packet}
             ELSE net_published
    /\ net_pc' = "dequeue"
    /\ UNCHANGED <<mqtt_connected, heartbeats, cap_pc, cap_packet>>
    /\ UNCHANGED <<hvars, svars, qvars, rvars, cvars>>

\* capture_task with a durable storage that may fail: the call of
\* vault_memory_get_next_seq, its sync succeeding or failing, then the
\* packet.
LiveCaptureSeq ==
    /\ cap_pc = "seq"
    /\ pc["capture"] = "idle" => calls["capture"] < MaxLiveEvents
    /\ GetNextSeqStep("capture") \/ GetNextSeqFailStep("capture")
    /\ IF pc'["capture"] = "idle"
       THEN /\ cap_pc' = "store"
            /\ cap_packet' = EventPacket(last_ret'["capture"])
       ELSE UNCHANGED <<cap_pc, cap_packet>>
    /\ UNCHANGED <<mqtt_connected, net_published, heartbeats, net_pc>>
    /\ UNCHANGED <<rvars, cvars>>

\* capture_task: vault_memory_store_history(g_memory, &packet).
LiveCaptureStore ==
    /\ cap_pc = "store"
    /\ StoreHistoryWrite(cap_packet)
    /\ cap_pc' = "queue"
    /\ UNCHANGED <<mqtt_connected, net_published, heartbeats, cap_packet, net_pc>>
    /\ UNCHANGED <<rvars, cvars>>

\* A capture_task that sends with portMAX_DELAY: it returns only when the
\* buffer has room.
LiveCaptureQueueNoTimeout ==
    /\ cap_pc = "queue"
    /\ QueueSendOk(cap_packet)
    /\ cap_pc' = "seq"
    /\ UNCHANGED <<mqtt_connected, net_published, heartbeats, cap_packet, net_pc>>
    /\ UNCHANGED <<rvars, cvars>>

\* capture_task: vault_memory_queue_network(g_memory, &packet, 100), which
\* returns when there is room or when the 100 ms are over; its result is
\* ignored, then the delay.
LiveCaptureQueue ==
    /\ cap_pc = "queue"
    /\ QueueSendOk(cap_packet) \/ QueueSendTimeout(cap_packet)
    /\ cap_pc' = "seq"
    /\ UNCHANGED <<mqtt_connected, net_published, heartbeats, cap_packet, net_pc>>
    /\ UNCHANGED <<rvars, cvars>>

\* network_task, as far as it gets: it may stop receiving at any time.
LiveNetworkDequeue ==
    /\ Len(received) < MaxLiveReceives
    /\ NetworkDequeue

\* capture_task running for good; network_task running or not.
LiveNext ==
    \/ LiveCaptureSeq
    \/ LiveCaptureStore
    \/ LiveCaptureQueue
    \/ LiveNetworkDequeue
    \/ NetworkPublish

\* capture_task is created at the highest priority on core 0 and every call
\* in its loop returns in bounded time: whenever its next step can be
\* taken, it is taken.
LiveFairness ==
    /\ WF_vars(LiveCaptureSeq)
    /\ WF_vars(LiveCaptureStore)
    /\ WF_vars(LiveCaptureQueue)

\* The range a replay command asks for in the running pipeline: the second
\* and the third sequence number of the session.
PipeReplayRequests == {<<boot_seq + 1, boot_seq + 2>>}

PipeNext ==
    \/ CaptureSeq
    \/ CaptureStore
    \/ CaptureQueue
    \/ NetworkDequeue
    \/ NetworkPublish
    \/ /\ MqttEventConnected
       /\ UNCHANGED <<hvars, svars, qvars, rvars, cvars>>
    \/ /\ MqttEventDisconnected
       /\ UNCHANGED <<hvars, svars, qvars, rvars, cvars>>
    \/ /\ \E r \in PipeReplayRequests : HandleReplay(r[1], r[2], {})
       /\ UNCHANGED <<rvars, cvars>>

\* capture_task at work while health_task sends its heartbeats: both draw
\* their sequence numbers from the one counter.
BeatNext ==
    \/ CaptureSeq
    \/ CaptureStore
    \/ CaptureQueue
    \/ /\ MqttEventConnected
       /\ UNCHANGED <<hvars, svars, qvars, rvars, cvars>>
    \/ /\ MqttEventDisconnected
       /\ UNCHANGED <<hvars, svars, qvars, rvars, cvars>>
    \/ HealthHeartbeat

(***************************************************************************)
(* capture_task storing events in order while the MQTT task serves replay  *)
(* commands.                                                               *)
(***************************************************************************)
RaceNext ==
    \/ StoreBegin(EventPacket(Len(stored)))
    \/ \E n \in {1, PacketSize - st_copied} : StoreCopy(n)
    \/ StoreAdvance
    \/ StoreCount
    \/ /\ MqttEventConnected
       /\ UNCHANGED <<hvars, svars, qvars, rvars, cvars>>
    \/ /\ MqttEventDisconnected
       /\ UNCHANGED <<hvars, svars, qvars, rvars, cvars>>
    \/ \E r \in ReplayRequests : ReplayBegin(r[1], r[2])
    \/ ReplayScan
    \/ \E fails \in PublishFailures : ReplayPublish(fails)

Next == HistoryNext

Spec == Init /\ [][Next]_vars

SeqSpec == Init /\ [][SeqNext]_vars

CrashSpec == Init /\ [][CrashNext]_vars

QueueSpec == Init /\ [][QueueNext]_vars

ReplaySpec == Init /\ [][ReplayNext]_vars

RaceSpec == Init /\ [][RaceNext]_vars

PipeSpec == Init /\ [][PipeNext]_vars

NvsSpec == Init /\ [][NvsNext]_vars

InitSpec == Init /\ [][InitNext]_vars

CmdSpec == Init /\ [][CmdNext]_vars

CodecSpec == CodecInit /\ [][CodecNext]_vars

ProvSpec == Init /\ [][ProvNext]_vars

BeatSpec == Init /\ [][BeatNext]_vars

\* The history driven through every value of the write cursor: one caller
\* stores the events 0, 1, 2, ... and reads around the window between the
\* stores.
MaxWrapStores == WordModulus + 2 * VAULT_HISTORY_MAX_ENTRIES

\* The sequence numbers probed: the window and the records just evicted.
WrapProbes ==
    {s \in Len(stored) - VAULT_HISTORY_MAX_ENTRIES - 2 .. Len(stored) - 1 : s >= 0}

WrapNext ==
    \/ /\ Len(stored) < MaxWrapStores
       /\ StoreHistoryWrite(EventPacket(Len(stored)))
       /\ UNCHANGED <<pvars, rvars, cvars>>
    \/ /\ \E s \in WrapProbes : FindBySeq(s)
       /\ UNCHANGED <<pvars, rvars, cvars>>
    \/ /\ GetRange(0, MaxWrapStores, VAULT_HISTORY_MAX_ENTRIES)
       /\ UNCHANGED <<pvars, rvars, cvars>>

WrapSpec == Init /\ [][WrapNext]_vars

\* The pipeline with the heartbeat of health_task: every publishing call
\* of vault_mqtt, made while the connection comes and goes.
OfflineCaptureSeq ==
    /\ pc["capture"] = "idle" => calls["capture"] < MaxOfflineEvents
    /\ CaptureSeq

OfflineNext ==
    \/ OfflineCaptureSeq
    \/ CaptureStore
    \/ CaptureQueue
    \/ NetworkDequeue
    \/ NetworkPublish
    \/ /\ MqttEventConnected
       /\ UNCHANGED <<hvars, svars, qvars, rvars, cvars>>
    \/ /\ MqttEventDisconnected
       /\ UNCHANGED <<hvars, svars, qvars, rvars, cvars>>
    \/ /\ \E r \in PipeReplayRequests : HandleReplay(r[1], r[2], {})
       /\ UNCHANGED <<rvars, cvars>>
    \/ HealthHeartbeat

OfflineSpec == Init /\ [][OfflineNext]_vars

ProvLiveSpec == Init /\ [][ProvNext]_vars /\ ProvFairness

LiveSpec == Init /\ [][LiveNext]_vars /\ LiveFairness

(***************************************************************************)
(* What the history is meant to hold: the most recent records, as the      *)
(* store was handed them.                                                  *)
(***************************************************************************)
\* The min(count, C) most recently stored packets, oldest first.
ValidWindow ==
    SubSeq(stored, Len(stored) - SearchCount + 1, Len(stored))

SeqToSet(q) == {q[i] : i \in 1 .. Len(q)}

RECURSIVE InRange(_, _, _)
\* The packets of a sequence whose sequence number lies in [lo, hi], in order.
InRange(q, lo, hi) ==
    IF q = <<>> THEN <<>>
    ELSE LET rest == InRange(Tail(q), lo, hi)
         IN IF Head(q).seq >= lo /\ Head(q).seq <= hi
            THEN <<Head(q)>> \o rest ELSE rest

Prefix(q, n) == SubSeq(q, 1, Min(n, Len(q)))

\* C1: every store writes its 13 bytes inside the region [0, region_size)
\* and onto exactly one slot: nothing is written past the region's end or
\* across two slots.
C1_StoreInsideOneSlot ==
    /\ heap_overrun = {}
    /\ last_store.write_pos >= 0 =>
          /\ last_store.offset + PacketSize <= HistoryBufferSize
          /\ last_store.offset % PacketSize = 0
          /\ last_store.offset \div PacketSize < VAULT_HISTORY_MAX_ENTRIES

\* C2: a store succeeds, leaves the record in slot (write_cursor mod C), the
\* slot the readers index, advances the write cursor by one and sets count
\* to min(count + 1, C); count never exceeds C.
C2_StoreWritesSlotCursorModC ==
    /\ history_count <= VAULT_HISTORY_MAX_ENTRIES
    /\ ret.op = "store" =>
          /\ ret.ok
          /\ PacketAt(history_buffer,
                      (last_store.write_pos % VAULT_HISTORY_MAX_ENTRIES) * PacketSize)
                = stored[Len(stored)]
          /\ history_write_pos = last_store.write_pos + 1
          /\ history_count = Min(last_store.count + 1, VAULT_HISTORY_MAX_ENTRIES)

\* C3: find_by_seq(t) returns the stored record with sequence t when t is
\* among the min(count, C) most recently stored records, and NotFound
\* otherwise.
C3_FindReturnsWindowRecord ==
    ret.op = "find" =>
        LET hits == {p \in SeqToSet(ValidWindow) : p.seq = ret.seq}
        IN IF hits = {} THEN ~ret.found
           ELSE ret.found /\ ret.packet \in hits

\* C4: after more than C stores, get_range over the whole span of sequence
\* numbers returns exactly the C most recently stored records and
\* find_by_seq of an older sequence number returns NotFound.
C4_OverwriteKeepsNewestC ==
    Len(stored) > VAULT_HISTORY_MAX_ENTRIES =>
        /\ (ret.op = "range" /\ ret.seq_start = 0 /\ ret.seq_end = MaxStoreSeq - 1
              /\ ret.max_count >= VAULT_HISTORY_MAX_ENTRIES)
             => SeqToSet(ret.packets) = SeqToSet(ValidWindow)
        /\ (ret.op = "find" /\ \E i \in 1 .. Len(stored) - VAULT_HISTORY_MAX_ENTRIES :
                                    stored[i].seq = ret.seq)
             => ~ret.found

\* C5: get_range(start, end, max_count) returns the records of the valid
\* window with start <= sequence <= end, oldest to newest, cut to the first
\* max_count; nothing for an empty range or max_count = 0, and never a
\* record with a sequence outside [start, end].
C5_RangeReturnsWindowRecords ==
    ret.op = "range" =>
        /\ ret.packets =
              Prefix(InRange(ValidWindow, ret.seq_start, ret.seq_end), ret.max_count)
        /\ (ret.seq_start > ret.seq_end \/ ret.max_count = 0) => ret.packets = <<>>
        /\ \A i \in 1 .. Len(ret.packets) :
              ret.packets[i].seq >= ret.seq_start /\ ret.packets[i].seq <= ret.seq_end

(***************************************************************************)
(* The sequence allocator.                                                 *)
(***************************************************************************)
TotalCalls == calls["capture"] + calls["health"]

InFlight == {c \in Contexts : pc[c] # "idle"}

\* Only context c has called vault_memory_get_next_seq in this session.
SingleCaller(c) ==
    \A d \in Contexts \ {c} : calls[d] = 0 /\ pc[d] = "idle"

\* C6: with a single caller, the n-th call of a boot session returns the
\* counter value established at init plus n - 1: successive calls return
\* values that go up by exactly 1, starting at the init value.
C6_SingleCallerStepOne ==
    \A c \in Contexts :
        (SingleCaller(c) /\ calls[c] > 0) =>
            last_ret[c] = boot_seq + calls[c] - 1

C6_Witness ==
    /\ SingleCaller("capture")
    /\ calls["capture"] >= VAULT_SEQ_SYNC_INTERVAL + 2
    /\ sync_at # <<>>
    /\ boot_seq > 0

\* C7: for any interleaving of calls from the two contexts, no identifier is
\* returned twice (nor held by two calls in flight), and the counter equals
\* its initial value plus the number of calls made.
C7_ConcurrentCallsUnique ==
    /\ Cardinality(issued) = TotalCalls
    /\ \A c \in InFlight : seq_local[c] \notin issued
    /\ \A c, d \in InFlight : c # d => seq_local[c] # seq_local[d]
    /\ seq_counter = boot_seq + TotalCalls + Cardinality(InFlight)
    /\ InFlight = {} => seq_counter = boot_seq + TotalCalls

C7_Witness ==
    /\ pc["capture"] = "nvs_commit"
    /\ pc["health"] = "check"
    /\ calls["capture"] >= VAULT_SEQ_SYNC_INTERVAL

\* C8: after an unclean restart at any point, at most K - 1 = 9 of the
\* identifiers issued before it are issued again.
C8_ReissueAtMostKMinus1 ==
    Cardinality(issued \cap prev_issued) <= VAULT_SEQ_SYNC_INTERVAL - 1

\* C9: with a single caller and NVS succeeding, the i-th sync of a session
\* is committed when the (10 * i)-th identifier has been issued: the first
\* with the 10th identifier, and 10 identifiers between consecutive syncs.
C9_SyncEveryTenIssued ==
    \A c \in Contexts :
        SingleCaller(c) =>
            \A i \in 1 .. Len(sync_at) : sync_at[i] = VAULT_SEQ_SYNC_INTERVAL * i

(***************************************************************************)
(* The network queue.                                                      *)
(***************************************************************************)
\* The packets still in the ring buffer, as the consumer will decode them.
QueuedPackets == [i \in 1 .. Len(network_queue) |-> PacketFromItem(network_queue[i])]

\* C10: with one producer and one consumer in parallel, the packets
\* dequeue returns are the packets for which queue returned true, in the
\* same order, each once and with all 13 bytes as sent: what was accepted
\* is what was received followed by what is still queued.
C10_QueueFifoExactlyOnce ==
    /\ accepted = received \o QueuedPackets
    /\ Len(received) <= Len(accepted)
    /\ \A i \in 1 .. Len(received) : received[i] = accepted[i]

C10_Witness ==
    /\ Len(received) >= 2
    /\ received[1] # received[2]
    /\ rb_held
    /\ Len(network_queue) = NetworkQueueItems
    /\ timeouts >= 1

(***************************************************************************)
(* The replay.                                                             *)
(***************************************************************************)
\* The calls of the publisher in the replay that has just returned.
ReplayCalls == IF ret.op = "replay" THEN ret.calls ELSE <<>>

\* The packets that went out to the broker client, decoded from the bytes
\* the publisher serialized.
ReplaySent ==
    {PacketFromItem(ReplayCalls[i].data) :
        i \in {j \in 1 .. Len(ReplayCalls) : ReplayCalls[j].sent}}

\* p is q with flag bit 0 set; the checksum is left open.
ReplayOf(p, q) ==
    /\ p.head = q.head
    /\ p.cmd = q.cmd
    /\ p.seq = q.seq
    /\ p.pin = q.pin
    /\ p.val = q.val
    /\ p.flags = BitOr(q.flags, VAULT_FLAG_IS_REPLAY)

\* C12: every record vault_mqtt_handle_replay(start, end) publishes is a
\* record that was passed to the store with a sequence number in
\* [start, end], with flag bit 0 set and nothing else but the checksum
\* changed.
C12_ReplayPublishesStoredRecords ==
    ret.op = "replay" =>
        \A p \in ReplaySent :
            \E j \in 1 .. Len(stored) :
                /\ stored[j].seq >= ret.seq_start
                /\ stored[j].seq <= ret.seq_end
                /\ ReplayOf(p, stored[j])

C14_ReplayAscending ==
    ret.op = "replay" =>
        \A i, j \in 1 .. Len(ret.calls) :
            i < j => ret.calls[i].packet.seq < ret.calls[j].packet.seq

\* C15: vault_mqtt_handle_replay returns the number of records the publisher
\* reported as published, not the number retrieved from the history.
C15_ReplayReturnsPublishedCount ==
    ret.op = "replay" =>
        ret.count = Cardinality({i \in 1 .. Len(ret.calls) : ret.calls[i].ok})

\* C16: a publish that fails does not end the batch: every record get_range
\* retrieved is passed to the publisher once, in the order retrieved,
\* whatever the earlier publishes of the batch returned.
C16_ReplayContinuesAfterFailure ==
    (ret.op = "replay" /\ ret.connected) =>
        /\ ret.retrieved = GetRangeResult(ret.seq_start, ret.seq_end, max_replay)
        /\ Len(ret.calls) = Len(ret.retrieved)
        /\ \A i \in 1 .. Len(ret.calls) :
              ReplayOf(ret.calls[i].packet, ret.retrieved[i])

C16_Witness ==
    /\ ret.op = "replay"
    /\ Len(ret.retrieved) = max_replay
    /\ ~ret.calls[1].ok
    /\ ret.calls[1].sent
    /\ ret.calls[max_replay].ok

(***************************************************************************)
(* The replay against a store in progress.                                 *)
(***************************************************************************)
\* C11: the history is touched from the producer context only: the loop of
\* vault_memory_get_range that serves a replay never runs while a
\* vault_memory_store_history is in progress, so it sees no half-written
\* record and no write position without its count.
C11_RangeNeverDuringStore ==
    ~(rd_pc = "scan" /\ st_pc # "idle")

(***************************************************************************)
(* The pipeline of main.c.                                                 *)
(***************************************************************************)
\* C17: a replay works on copies: it leaves the history (slots, write
\* position, count), the contents of the network queue and the sequence
\* counter as they were; and a store, which may overwrite a slot, leaves
\* the records in the network queue as they were sent.
C17_ReplayAndQueueWorkOnCopies ==
    /\ [][accepted' = received' \o [i \in 1 .. Len(network_queue') |->
                                       PacketFromItem(network_queue'[i])]]_vars
    /\ [][(ret' # ret /\ ret'.op = "replay") =>
              UNCHANGED <<history_buffer, history_write_pos, history_count,
                          network_queue, rb_held, seq_counter>>]_vars
    /\ [][(Len(stored') > Len(stored)) => UNCHANGED network_queue]_vars

\* A replay has returned records while the queue holds an event whose bytes
\* in the history have since been overwritten.
C17_Witness ==
    /\ ret.op = "replay"
    /\ ret.retrieved # <<>>
    /\ network_queue # <<>>
    /\ seq_counter > boot_seq
    /\ \E i \in 1 .. Len(stored) :
          /\ stored[i] = QueuedPackets[1]
          /\ StoreOffset(i - 1) + PacketSize <= HistoryBufferSize
          /\ PacketAt(history_buffer, StoreOffset(i - 1)) # stored[i]

\* C18: every captured event is in the history whether or not its send to
\* the network queue succeeded and whether or not network_task published
\* it: an event that was not handed to the publisher is returned by
\* find_by_seq as long as fewer than C later events have been stored.
C18_UnpublishedEventsStayInHistory ==
    /\ \A p \in SeqToSet(accepted) : p \in SeqToSet(stored)
    /\ \A i \in 1 .. Len(stored) :
          (Len(stored) - i < VAULT_HISTORY_MAX_ENTRIES /\ stored[i] \notin net_published)
             => LET found == FindBySeqResult(stored[i].seq)
                IN found.found /\ found.packet = stored[i]

\* C19: every record handed to the store, to the network queue or to the
\* publisher (events, heartbeats, replays) has the head byte and a checksum
\* valid for its bytes 0-11 when it is handed over.
C19_HandoversSealed ==
    /\ cap_pc \in {"store", "queue"} => vault_protocol_validate_packet(cap_packet)
    /\ \A p \in SeqToSet(stored) : vault_protocol_validate_packet(p)
    /\ \A p \in SeqToSet(accepted) : vault_protocol_validate_packet(p)
    /\ \A p \in net_published : vault_protocol_validate_packet(p)
    /\ \A p \in heartbeats : vault_protocol_validate_packet(p)
    /\ \A p \in ReplaySent : vault_protocol_validate_packet(p)

\* C20: vault_memory_queue_network on a full queue returns false when its
\* timeout expires and leaves the queue as it was, without another try;
\* it returns true only if the whole record has been put into the queue.
C20_SendOnFullQueueFails ==
    /\ [][Len(network_queue) >= NetworkQueueItems => accepted' = accepted]_vars
    /\ [][timeouts' # timeouts =>
              /\ network_queue' = network_queue
              /\ accepted' = accepted]_vars
    /\ [][accepted' # accepted =>
              /\ accepted' = Append(accepted, cap_packet)
              /\ network_queue' = Append(network_queue, PacketBytes(cap_packet))
              /\ PacketFromItem(network_queue'[Len(network_queue')]) = cap_packet]_vars

\* capture_task has just been refused by the full queue.
C20_Witness ==
    /\ timeouts >= 1
    /\ Len(network_queue) = NetworkQueueItems
    /\ cap_pc = "seq"
    /\ Len(stored) > Len(accepted)
    /\ stored[Len(stored)] \notin SeqToSet(accepted)

(***************************************************************************)
(* The consumer's side of the queue: a receive on the empty buffer.        *)
(***************************************************************************)
\* C21: vault_memory_dequeue_network on an empty queue returns false only
\* once its ticks have run out (at once for a timeout of 0) and leaves the
\* caller's record and the queue as they were; a blocked receive that finds
\* a record sent before its ticks ran out does not time out but returns
\* that record, the oldest one accepted and not yet received.
C21_ReceiveOnEmptyQueue ==
    /\ [][(timeouts' > timeouts /\ network_queue = <<>>) =>
             /\ rx_pc = "blocked" => rx_ticks = 0
             /\ rx_packet' = rx_packet
             /\ received' = received
             /\ network_queue' = network_queue
             /\ rx_pc' = "idle"]_vars
    /\ [][(rx_pc = "blocked" /\ ~rb_held /\ network_queue # <<>>) =>
             rb_held' \/ (rx_pc' = "blocked" /\ rx_ticks' = rx_ticks)]_vars
    /\ [][(Len(received') > Len(received)) =>
             /\ rb_held
             /\ rx_packet' = accepted[Len(received')]
             /\ received' = Append(received, rx_packet')]_vars

\* A receive timed out on the empty queue after an earlier one had filled
\* the caller's record, and now a blocked receive holds the record that was
\* sent while it waited.
C21_Witness ==
    /\ rx_pc = "blocked"
    /\ rb_held
    /\ timeouts > 0
    /\ Len(received) = 1
    /\ Len(accepted) = 2
    /\ rx_packet = received[1]


(***************************************************************************)
(* The order of capture_task's work.                                       *)
(***************************************************************************)
\* The stores and the accepted sends so far, against the identifiers issued.
StoredInIssueOrder ==
    /\ \A i \in 1 .. Len(stored) :
          /\ stored[i].cmd = VAULT_CMD_EVENT
          /\ stored[i].seq = boot_seq + i - 1
    /\ Len(stored) <= VAULT_HISTORY_MAX_ENTRIES =>
          \A i \in 1 .. Len(stored) : ScanPacket(i - 1) = stored[i]
    /\ \A i \in 1 .. Len(accepted) :
          /\ \E k \in 1 .. Len(stored) : stored[k] = accepted[i]
          /\ i > 1 => accepted[i - 1].seq < accepted[i].seq

C23_SyncFailureKeepsIssuing ==
    /\ [][\A c \in Contexts :
            (/\ pc'[c] # pc[c]
             /\ pc[c] = "sync_failed" \/ pc'[c] = "sync_failed"
             /\ reboots' = reboots) =>
                /\ seq_last_synced' = seq_last_synced
                /\ seq_counter' = seq_counter]_vars
    /\ [][\A c \in Contexts :
            (pc[c] = "sync_failed" /\ pc'[c] = "idle" /\ reboots' = reboots) =>
                /\ last_ret'[c] = seq_local[c]
                /\ seq_local[c] \notin issued
                /\ seq_local[c] < seq_counter
                /\ calls'[c] = calls[c] + 1]_vars
    /\ [][/\ Cardinality(issued') = TotalCalls'
          /\ \A c \in Contexts :
                (SingleCaller(c)' /\ calls'[c] > 0) =>
                    last_ret'[c] = boot_seq' + calls'[c] - 1]_vars
    /\ [][\A c \in Contexts :
            (pc[c] = "check" /\ pc'[c] = "idle" /\ reboots' = reboots) =>
                ~SyncDue(seq_local[c], seq_last_synced)]_vars

\* A single caller whose sync failed at the 11th call and again at the
\* 12th: both calls have returned, 12 consecutive identifiers are out, and
\* seq_last_synced is still the init value.
C23_Witness ==
    /\ SingleCaller("capture")
    /\ reboots = 0
    /\ calls["capture"] >= VAULT_SEQ_SYNC_INTERVAL + 2
    /\ last_ret["capture"] = boot_seq + calls["capture"] - 1
    /\ seq_last_synced = boot_seq
    /\ seq_counter = boot_seq + calls["capture"]

\* C30: when vault_memory_init returns, the counter is the value the
\* durable storage holds if the load succeeded, and 0 if the storage holds
\* none or the load failed; seq_last_synced equals the counter.  The same
\* holds of the first boot.
C30_InitLoadsCommittedCounter ==
    /\ seq_counter = LoadedSeq(nvs_value) /\ seq_last_synced = seq_counter
    /\ [][\A c \in Contexts :
            (pc[c] \in {"init_loaded", "init_load_failed"} /\ pc'[c] = "idle") =>
                /\ seq_counter' = IF pc[c] = "init_loaded" THEN nvs_value ELSE 0
                /\ pc[c] = "init_loaded" => nvs_value # NoValue
                /\ seq_last_synced' = seq_counter'
                /\ nvs_value' = nvs_value]_vars
    /\ [][\A c \in Contexts :
            (pc[c] = "init_load" /\ nvs_value = NoValue) =>
                pc'[c] = "init_load_failed"]_vars

\* A restart whose load failed although the storage holds a counter: the
\* session starts at 0.
C30_Witness ==
    /\ reboots = 1
    /\ nvs_value > 0
    /\ boot_seq = 0
    /\ seq_last_synced = 0
    /\ \A c \in Contexts : pc[c] = "idle"


(***************************************************************************)
(* Who runs the durable sync.                                              *)
(***************************************************************************)
\* C25: the calls of vault_memory_sync_seq_to_nvs (nvs_set_u32, nvs_commit
\* and the write of seq_last_synced) are never executed in the context of
\* health_task, which draws the identifiers of its heartbeats through
\* vault_mqtt_publish_heartbeat; only capture_task executes them.
C25_SyncOnlyInProducerContext ==
    pc["health"] \notin {"nvs_set", "nvs_commit", "synced"}


(***************************************************************************)
(* The progress of capture_task.                                           *)
(***************************************************************************)
\* C24: every iteration of capture_task comes to its end, whatever the
\* consumer, the queue and the durable storage do: all iterations of the
\* run are completed, each with its identifier issued and its event
\* stored.  The store is a single step that always succeeds: it returns
\* true and the history has taken the packet.
C24_CaptureIterationsTerminate ==
    /\ <>(/\ calls["capture"] = MaxLiveEvents
          /\ Len(stored) = MaxLiveEvents
          /\ cap_pc = "seq"
          /\ pc["capture"] = "idle")
    /\ (cap_pc = "store") ~> (cap_pc = "queue")
    /\ (cap_pc = "queue") ~> (cap_pc = "seq")
    /\ [][cap_pc = "store" /\ cap_pc' # "store" =>
             /\ ret' = [op |-> "store", ok |-> TRUE]
             /\ stored' = Append(stored, cap_packet)
             /\ cap_pc' = "queue"]_vars

\* All iterations are done although network_task never received a packet,
\* the queue has been full since the first sends, every later send timed
\* out and no sync has ever succeeded.
C24_Witness ==
    /\ calls["capture"] = MaxLiveEvents
    /\ Len(stored) = MaxLiveEvents
    /\ cap_pc = "seq"
    /\ received = <<>>
    /\ ~rb_held
    /\ Len(network_queue) = NetworkQueueItems
    /\ timeouts = MaxLiveEvents - NetworkQueueItems
    /\ seq_last_synced = boot_seq
    /\ seq_counter - seq_last_synced >= VAULT_SEQ_SYNC_INTERVAL + 2
    /\ sync_at = <<>>


(***************************************************************************)
(* Messages on the command topic.                                          *)
(***************************************************************************)
\* One shift of the checksum register: the top bit, when set, feeds
\* x^2 + x + 1 back.
ShiftOnce == [c \in 0 .. 255 |-> IF c >= 128 THEN BitXor((2 * c) % 256, 7)
                                              ELSE 2 * c]

RECURSIVE ChecksumOf(_, _, _)
\* The checksum of the bytes of data from byte i on, bit by bit: every byte
\* is added to the register, which is then shifted eight times.
ChecksumOf(data, i, crc) ==
    IF i > Len(data) THEN crc
    ELSE ChecksumOf(data, i + 1,
            ShiftOnce[ShiftOnce[ShiftOnce[ShiftOnce[ShiftOnce[ShiftOnce[
                ShiftOnce[ShiftOnce[XorTable[crc][data[i]]]]]]]]]])

\* A payload that is a sealed packet: 13 bytes, the head in byte 0, byte 12
\* the checksum of bytes 0-11.
SealedPayload(data) ==
    /\ Len(data) = PacketSize
    /\ data[1] = VAULT_PROTO_HEAD
    /\ data[PacketSize] = ChecksumOf(SubSeq(data, 1, PacketSize - 1), 1, 0)

\* The payloads of the command topic that are sealed packets.
SealedCommandPayloads == {data \in CommandPayloads : SealedPayload(data)}

\* C26: a message whose payload is a sealed packet with cmd
\* VAULT_CMD_REPLAY makes the handler call vault_mqtt_handle_replay once,
\* with the packet's seq and val; any other message leaves the replay
\* uncalled, and a payload that is not a sealed packet does not reach the
\* command callback.
C26_ReplayOnlyOnParsedRequest ==
    [][cmd_messages' = cmd_messages + 1 =>
          LET data == codec_bytes'
          IN IF data \in SealedCommandPayloads /\ data[2] = VAULT_CMD_REPLAY
             THEN /\ cmd_replays' = Append(cmd_replays,
                                       <<LeWord(data, 3), LeWord(data, 9)>>)
                  /\ ret'.op = "replay"
                  /\ ret'.seq_start = LeWord(data, 3)
                  /\ ret'.seq_end = LeWord(data, 9)
             ELSE /\ cmd_replays' = cmd_replays
                  /\ UNCHANGED hvars
                  /\ data \notin SealedCommandPayloads =>
                        cmd_callbacks' = cmd_callbacks]_vars

\* A replay request has been served with records to resend, and a second
\* message, not a sealed packet, has been turned away.
C26_Witness ==
    /\ cmd_messages = 2
    /\ Len(cmd_replays) = 1
    /\ ~codec_parsed.ok
    /\ Len(codec_bytes) = PacketSize
    /\ ret.op = "replay"
    /\ ret.count > 0
    /\ Len(cmd_callbacks) = 1


\* The packets a replay handed to the publisher, in order.
PublishedPackets(r) == [i \in 1 .. Len(r.calls) |-> r.calls[i].packet]

WireLayout(data, r) ==
    /\ Len(data) = 13
    /\ \A i \in 1 .. 13 : data[i] \in 0 .. 255
    /\ data[1] = r.head
    /\ data[2] = r.cmd
    /\ data[3] + 256 * data[4] + 65536 * data[5] + 16777216 * data[6] = r.seq
    /\ data[7] = r.pin
    /\ data[8] = r.flags
    /\ data[9] + 256 * data[10] + 65536 * data[11] + 16777216 * data[12] = r.val
    /\ data[13] = r.crc

\* C28: finalizing a record changes its checksum byte only; serializing a
\* record writes exactly 13 bytes in the little-endian layout of the wire
\* format; and parsing the bytes of a finalized record succeeds and yields
\* the finalized record, equal in every field.
C28_RoundTrip ==
    /\ codec_log.state = "final" =>
          codec_record = [codec_log.raw EXCEPT !.crc = codec_record.crc]
    /\ (codec_log.source_state # "none" /\ codec_log.damage = 0) =>
          WireLayout(codec_bytes, codec_log.source)
    /\ (codec_log.source_state = "final" /\ codec_log.damage = 0
            /\ codec_log.parsed) =>
          /\ codec_parsed.ok
          /\ codec_parsed.packet = codec_log.source
          /\ codec_parsed.packet = codec_record

\* A finalized record with the largest sequence number, a value whose four
\* bytes differ, and pin and flags that differ has made the round trip.
C28_Witness ==
    /\ codec_log.source_state = "final"
    /\ codec_log.damage = 0
    /\ codec_log.parsed
    /\ codec_parsed.ok
    /\ codec_record.seq = 2147483647
    /\ codec_record.val = 2130706433
    /\ codec_record.pin # codec_record.flags
    /\ codec_record.cmd = 255

\* The bytes are what the parser must turn down: they are not 13, or they
\* do not start with the sentinel, or the last one is not the checksum of
\* the twelve before it.
Unacceptable(data) ==
    \/ Len(data) # PacketSize
    \/ data[1] # VAULT_PROTO_HEAD
    \/ data[PacketSize] # ChecksumOf(SubSeq(data, 1, PacketSize - 1), 1, 0)

\* C29: the parser rejects exactly the inputs whose length is not 13, whose
\* first byte is not the sentinel, or whose last byte is not the checksum of
\* bytes 0-11, and accepts every other input; validation returns true for a
\* finalized record and false once its head or its checksum byte has been
\* changed.
C29_ParseRejectsExactly ==
    /\ codec_log.parsed => (codec_parsed.ok <=> ~Unacceptable(codec_bytes))
    /\ (codec_log.state = "final" /\ codec_log.valid # "unchecked") =>
          codec_log.valid = "valid"
    /\ (codec_log.state \in {"head_changed", "crc_changed"}
            /\ codec_log.valid # "unchecked") =>
          codec_log.valid = "invalid"

\* A record whose checksum byte was changed after finalizing has failed
\* validation, and its 13 bytes, sentinel in front, have been rejected.
C29_Witness ==
    /\ codec_log.state = "crc_changed"
    /\ codec_log.valid = "invalid"
    /\ codec_log.parsed
    /\ ~codec_parsed.ok
    /\ Len(codec_bytes) = PacketSize
    /\ codec_bytes[1] = VAULT_PROTO_HEAD
    /\ codec_record.val = 2130706433


\* C31: after a shutdown by vault_memory_deinit whose sync succeeded and an
\* init that loaded the counter, every session so far having ended that
\* way, the session starts above every identifier issued before, and so
\* does every identifier it issues.
C31_CleanShutdownKeepsCounter ==
    (mem_pc = "up" /\ mem_log.deinit = "ok" /\ mem_log.clean) =>
        /\ \A p \in prev_issued : boot_seq > p
        /\ \A i \in issued : \A p \in prev_issued : i > p

\* A session that issued identifiers was shut down cleanly, and the next
\* one has issued its first identifier.
C31_Witness ==
    /\ mem_pc = "up"
    /\ mem_log.deinit = "ok"
    /\ mem_log.clean
    /\ Cardinality(prev_issued) = MaxInitCalls
    /\ issued # {}

\* C32: once the manager is gone, after vault_memory_deinit or an init
\* that returned NULL, none of the blocks vault_memory_init allocated is
\* still allocated.
C32_NoBlockOutlivesManager ==
    mem_pc \in {"gone", "null"} => \A b \in Blocks : heap[b] = 0


\* The handler has finished with a message by returning.
ProvReturned == prov_pc = "idle" /\ prov_count > 0

\* The positions of an event in the handler's log.
LogIndex(event) == {i \in 1 .. Len(prov_log) : prov_log[i] = event}

\* C33: while a provisioning message is handled the capture, logic and
\* health tasks are suspended and setup mode is on; the network task is
\* never suspended; whenever the handler has returned, after a parse error,
\* a failed validation or a failed save, setup mode is off and no task is
\* suspended; and a call of exit_setup_mode outside setup mode changes
\* nothing.
C33_SetupModeBracketsHandler ==
    [][/\ (prov_pc' \notin {"idle", "restarted"}) =>
              (in_setup_mode' /\ SetupSuspends \subseteq suspended')
       /\ "network" \notin suspended'
       /\ prov_pc' = "idle" => (~in_setup_mode' /\ suspended' = {})
       /\ (prov_pc = "idle" /\ prov_pc' = "idle") =>
              UNCHANGED <<in_setup_mode, suspended, prov_stored, prov_count>>
      ]_vars

\* The handler returned after a failed save: the three tasks had been
\* suspended, and run again.
C33_Witness ==
    /\ ProvReturned
    /\ prov_msg.fate = "set_failed"
    /\ prov_log[1] = "suspend"
    /\ prov_log[Len(prov_log)] = "exit_call"
    /\ ~in_setup_mode
    /\ suspended = {}

\* C34: the configuration is written to NVS only after the WiFi and the
\* MQTT validation succeeded, the device restarts only after the save
\* succeeded, and when the handler has returned on a failure the stored
\* configuration is the one from before the message and there was no
\* restart.
C34_SaveAfterValidationOnly ==
    /\ \A i \in LogIndex("nvs_set") \cup LogIndex("saved") :
          /\ \E j \in LogIndex("wifi_valid") : j < i
          /\ \E j \in LogIndex("mqtt_valid") : j < i
    /\ \A i \in LogIndex("restart") : \E j \in LogIndex("saved") : j < i
    /\ ProvReturned =>
          /\ prov_stored = prov_msg.stored_before
          /\ LogIndex("restart") = {}

\* The responses the handler has sent for this message, in order.
ProvResponses ==
    SelectSeq(prov_log,
              LAMBDA e : e \in {"response:applied", "response:parse_error",
                                "response:wifi_failed", "response:mqtt_failed",
                                "response:memory_error",
                                "response:invalid_config", "response:unknown"})

\* The response a message is to be answered with: the first step that
\* fails, a failure of the save being a memory error.
ExpectedResponse ==
    CASE prov_msg.fate = "parse_error" -> "response:parse_error"
      [] prov_msg.fate = "wifi_failed" -> "response:wifi_failed"
      [] prov_msg.fate = "mqtt_failed" -> "response:mqtt_failed"
      [] prov_msg.fate \in {"open_failed", "set_failed", "commit_failed"} ->
            "response:memory_error"
      [] prov_msg.fate = "applied" -> "response:applied"
      [] OTHER -> "none"

\* C35: a provisioning message is answered with at most one response while
\* it is handled and with exactly one once the handler is done; its status
\* names the first step that failed, or is "applied"; and the response
\* "applied" comes after the save and before the restart.
C35_OneResponsePerMessage ==
    /\ Len(ProvResponses) <= 1
    /\ (ProvReturned \/ prov_pc \in {"restart", "restarted"}) =>
          ProvResponses = <<ExpectedResponse>>
    /\ \A i \in LogIndex("response:applied") :
          /\ \E j \in LogIndex("saved") : j < i
          /\ \A j \in LogIndex("restart") : i < j
    /\ prov_pc = "restarted" => LogIndex("response:applied") # {}

\* A message went through every step, was answered once with "applied",
\* and the device restarted.
C35_Witness ==
    /\ prov_pc = "restarted"
    /\ prov_count = MaxProvMessages
    /\ prov_log = <<"suspend", "parsed", "wifi_valid", "mqtt_valid", "nvs_open",
                    "nvs_set", "saved", "response:applied", "restart">>

\* C39: under fair scheduling every provisioning message that is being
\* handled is eventually done with: the handler returns or the device
\* restarts.
C39_HandlerTerminates ==
    (prov_pc \notin {"idle", "restarted"}) ~> (prov_pc \in {"idle", "restarted"})


\* No context is between the nvs_set_u32 of a sync and its write of
\* seq_last_synced.
NoSyncInFlight == \A c \in Contexts : pc[c] \notin {"nvs_set", "nvs_commit", "synced"}

\* C36: whenever no sync is under way, seq_last_synced is the value most
\* recently committed to NVS in this session, and the committed value never
\* goes down within the session, whichever way the calls and syncs of the
\* two contexts interleave.
C36_LastSyncedIsCommitted ==
    [][/\ (NoSyncInFlight' /\ sync_at' # <<>>) => seq_last_synced' = nvs_value'
       /\ nvs_value' >= nvs_value
      ]_vars


\* C37: the records capture_task has stored in this session carry
\* consecutive sequence numbers, each 1 greater than the one stored before
\* it, also when heartbeats are published between events.
C37_StoredSeqConsecutive ==
    \A i \in 2 .. Len(stored) : stored[i].seq = stored[i - 1].seq + 1


\* The latest store multiplied a cursor whose product with the record size
\* does not fit the word; WordModulus stores after the first one the cursor
\* itself has wrapped to 0.
ProductOverflowed == (Len(stored) - 1) * PacketSize >= WordModulus

\* C38: for every value of the write cursor, past the overflow of the
\* product cursor * 13 and past the wrap of the cursor to 0, the slot the
\* store selected is the newest slot of the window the readers scan,
\* find_by_seq finds exactly the retained records and get_range over all
\* sequence numbers returns exactly the retained records.
C38_CursorWidthKeepsWindow ==
    (ProductOverflowed /\ last_store.write_pos >= 0) =>
        /\ last_store.offset = ScanPos(SearchCount - 1) * PacketSize
        /\ ret.op = "find" =>
              LET hits == {p \in SeqToSet(ValidWindow) : p.seq = ret.seq}
              IN IF hits = {} THEN ~ret.found
                 ELSE ret.found /\ ret.packet \in hits
        /\ ret.op = "range" => SeqToSet(ret.packets) = SeqToSet(ValidWindow)


\* C40: a call of vault_mqtt_publish_event, vault_mqtt_publish_heartbeat
\* or vault_mqtt_handle_replay made while the client is not connected
\* returns false / 0 and has no effect: nothing is published, no sequence
\* number is consumed and the history is not read.
C40_DisconnectedCallsHaveNoEffect ==
    [][ ~mqtt_connected =>
          /\ (net_pc = "publish" /\ net_pc' = "dequeue") =>
                UNCHANGED <<net_published, heartbeats, seq_counter, calls>>
          /\ pc["health"] = "idle" =>
                /\ pc'["health"] = "idle"
                /\ calls'["health"] = calls["health"]
                /\ heartbeats' = heartbeats
          /\ (ret'.op = "heartbeat" /\ ret' # ret) =>
                /\ ~ret'.ok
                /\ UNCHANGED <<net_published, heartbeats, seq_counter, calls>>
          /\ (ret'.op = "replay" /\ ret' # ret) =>
                /\ ~ret'.connected
                /\ ret'.count = 0
                /\ ret'.retrieved = <<>>
                /\ ret'.calls = <<>>
                /\ UNCHANGED <<net_published, heartbeats, seq_counter, calls>>
      ]_vars

\* A heartbeat was refused while the history holds records and a dequeued
\* packet went unpublished.
C40_Witness ==
    /\ ~mqtt_connected
    /\ ret = [op |-> "heartbeat", ok |-> FALSE]
    /\ stored # <<>>
    /\ net_pc = "dequeue"
    /\ \E i \in 1 .. Len(received) : received[i] \notin net_published

=============================================================================
